---------------------------- MODULE Spec2Model ----------------------------
(***************************************************************************)
(* State-machine model of hotosm/TM-Extractor, src/tm_extractor.py:        *)
(* class ProjectProcessor (retry_post_request, retry_get_request,          *)
(* track_tasks_status, get_project_details, get_active_projects,           *)
(* process_project, init_call).                                            *)
(*                                                                         *)
(* Every coroutine is a small program counter machine.  One action is one  *)
(* iteration of a retry loop (the HTTP attempt, the branch the code takes  *)
(* on its response, and the sleep that branch awaits), or one straight     *)
(* line piece of a coroutine between two awaited calls.  HTTP responses    *)
(* are the inputs, drawn with \E from the response sets below.  The        *)
(* *_trace variables record, in program order, the requests sent and the   *)
(* sleeps awaited by the current call.                                     *)
(***************************************************************************)
EXTENDS Integers, Sequences, FiniteSets, TLC

VARIABLES
    max_retries,    \* self.max_retries (API_MAX_RETRIES)
    config,         \* self.config, the extraction-config template
    config_json,    \* the template as loaded by __init__
    tracing,        \* whether the *_trace variables are recorded
    post_pc,        \* retry_post_request: "idle" | "request" | "returned"
    post_attempt,   \* retry_post_request: loop variable attempt
    post_ret,       \* retry_post_request: returned value
    post_trace,     \* retry_post_request: requests and sleeps of this call
    post_body,      \* retry_post_request: the argument request_config
    get_pc,         \* retry_get_request: "idle" | "request" | "returned"
    get_attempt,    \* retry_get_request: loop variable attempt
    get_ret,        \* retry_get_request: returned value
    get_trace,      \* retry_get_request: requests and sleeps of this call
    task_ids,       \* track_tasks_status: the argument task_ids
    track_pc,       \* track_tasks_status: position in the coroutine
    track_idx,      \* track_tasks_status: index in task_ids of the loop's task_id
    results,        \* track_tasks_status: the dict results
    track_trace,    \* track_tasks_status: polls and sleeps for the current task_id
    track_first_try,\* whether every poll for the current task_id was answered
                    \* on its first HTTP attempt
    report,         \* the file result.json
    details_pc,     \* get_project_details: "idle" | "request" | "returned"
    details_id,     \* get_project_details: the argument project_id
    details_retry,  \* get_project_details: loop variable retry
    details_ret,    \* get_project_details: returned value
    details_trace,  \* get_project_details: requests and sleeps of this call
    active_pc,      \* get_active_projects: "idle" | "request" | "returned"
    active_retry,   \* get_active_projects: loop variable retry
    active_ret,     \* get_active_projects: returned value
    active_trace,   \* get_active_projects: requests and sleeps of this call
    active_failures,\* get_active_projects: attempts of this call that failed
    projects,       \* init_call: the argument projects
    fetch_active_projects,  \* init_call: the argument fetch_active_projects
    init_pc,        \* init_call: position in the coroutine
    init_idx,       \* init_call: index of the for loop under way
    all_project_details,    \* init_call: the list all_project_details
    init_task_ids,  \* init_call: the list task_ids
    init_ret,       \* init_call: returned value
    resolve_log,    \* project ids get_project_details was called with, in order
    process_log,    \* projects process_project was called with, and what it returned
    map_raw,        \* process_project: the list mapping_types_raw
    map_pc,         \* process_project, mapping-type loop: "idle" | "loop" | "done"
    map_idx,        \* process_project: index in mapping_types_raw of the loop's item
    map_ret,        \* process_project: mapping_type_return, for the last item
    map_types,      \* process_project: the list mapping_types
    main_pc,        \* main: "idle" | "start" | "init_call" | "returned" | "aborted"
    config_file,    \* what the path CONFIG_JSON holds
    auth_token,     \* whether RAWDATA_API_AUTH_TOKEN is set
    build_pc,       \* generate_filtered_config: "idle" | "call" | "returned" | "raised"
    build_args,     \* generate_filtered_config: project_id, mapping_types, geometry
    build_ret       \* generate_filtered_config: returned value

cfg_vars == <<max_retries, config, config_json, tracing>>

map_vars == <<map_raw, map_pc, map_idx, map_ret, map_types>>

post_vars == <<post_pc, post_attempt, post_ret, post_trace, post_body>>

get_vars == <<get_pc, get_attempt, get_ret, get_trace>>

track_vars == <<task_ids, track_pc, track_idx, results, track_trace,
                track_first_try, report>>

details_vars == <<details_pc, details_id, details_retry, details_ret, details_trace>>

active_vars == <<active_pc, active_retry, active_ret, active_trace, active_failures>>

init_vars == <<projects, fetch_active_projects, init_pc, init_idx,
               all_project_details, init_task_ids, init_ret, resolve_log,
               process_log>>

\* the variables of the project side: resolver and submission pipeline
tm_vars == <<details_vars, active_vars, init_vars>>

main_vars == <<main_pc, config_file, auth_token>>

build_vars == <<build_pc, build_args, build_ret>>

\* the variables of main and of generate_filtered_config called on its own
run_vars == <<main_vars, build_vars>>

vars == <<cfg_vars, map_vars, run_vars, post_vars, get_vars, track_vars, tm_vars>>

-----------------------------------------------------------------------------
(* Bounds of the model *)

\* integer mapping-type tokens run from -MaxOrdinal to MaxOrdinal
MaxOrdinal == 6

\* largest value of API_MAX_RETRIES explored
MaxRetriesCfg == 2
\* most status polls of one job explored
MaxPolls == 3

-----------------------------------------------------------------------------
(* Program constants *)

\* default of the max_retries parameter of retry_post_request
PostMaxRetries == 3
\* DEFAULT_ENV_VARS["API_BACKOFF_BASE"]
backoff_base == 2
\* DEFAULT_ENV_VARS["RATE_LIMIT_WAIT"]
rate_limit_wait == 61
\* DEFAULT_ENV_VARS["TASK_POLL_INTERVAL"]
task_poll_interval == 30

\* Python's None, and a JSON object that lacks a field
None == "None"
NoField == "<absent>"

\* b ** e
RECURSIVE Pow(_, _)
Pow(b, e) == IF e = 0 THEN 1 ELSE b * Pow(b, e - 1)

-----------------------------------------------------------------------------
(* The remote services' answers *)

\* task ids the raw-data service hands out
TaskIds == {"t1", "t2"}

\* HTTP error statuses raise_for_status() raises ClientResponseError for
ErrorStatuses == {429, 502, 500, 404}

\* what one HTTP attempt can end in, besides a 2xx body
Failures ==
    [kind : {"status"}, status : ErrorStatuses]
        \cup [kind : {"timeout", "connerr"}, status : {0}]

\* one POST attempt: a 2xx JSON object with or without task_id, or a failure
PostResponses ==
    [kind : {"ok"}, status : {200}, task_id : TaskIds \cup {NoField}]
        \cup {[kind |-> f.kind, status |-> f.status, task_id |-> NoField] : f \in Failures}

\* status values the raw-data service documents, and one it does not
KnownStatuses == {"SUCCESS", "PENDING", "STARTED", "ERROR", "FAILURE"}
Statuses == KnownStatuses \cup {"REVOKED"}
Payloads == {"payload_a", "payload_b"}
Messages == {"server message"}

\* the JSON object GET {base}/tasks/status/{task_id}/ answers with
StatusBodies ==
    [status : Statuses \cup {NoField},
     result : Payloads \cup {NoField},
     message : Messages \cup {NoField}]

NoBody == [status |-> NoField, result |-> NoField, message |-> NoField]

\* one GET attempt: a 2xx JSON body, or a failure
GetResponses ==
    [kind : {"ok"}, status : {200}, body : StatusBodies]
        \cup {[kind |-> f.kind, status |-> f.status, body |-> NoBody] : f \in Failures}

\* str(e) of the exception a failed attempt raised
StrOfError(resp) ==
    CASE resp.kind = "timeout" -> "TimeoutError"
      [] resp.kind = "connerr" -> "ClientConnectorError"
      [] OTHER -> "ClientResponseError"

\* events of a trace: a request with the response it got, an awaited sleep
Request(resp) == [ev |-> "request", resp |-> resp]
Sleep(why, secs) == [ev |-> "sleep", why |-> why, secs |-> secs]
\* a trace with the events of one more loop iteration
Log(trace, events) == IF tracing THEN trace \o events ELSE trace

\* a coroutine that has not returned a value
NoReturn == [returned |-> FALSE]
\* a coroutine that returned None
ReturnedNone == [returned |-> TRUE, none |-> TRUE]
\* a coroutine that returned the value v
Returned(v) == [returned |-> TRUE, none |-> FALSE, value |-> v]

-----------------------------------------------------------------------------
(* Mapping types: get_mapping_list *)

\* a field of a JSON object or dict: absent, or present with a value
Absent == [present |-> FALSE]
Field(v) == [present |-> TRUE, value |-> v]

\* a mapping-type token: an int, a str (its characters), or any other value
IntToken(n) == [type |-> "int", int |-> n, chars |-> <<>>]
StrToken(cs) == [type |-> "str", int |-> 0, chars |-> cs]
OtherToken == [type |-> "other", int |-> 0, chars |-> <<>>]

LowerLetters ==
    << "a", "b", "c", "d", "e", "f", "g", "h", "i", "j", "k", "l", "m",
       "n", "o", "p", "q", "r", "s", "t", "u", "v", "w", "x", "y", "z" >>
UpperLetters ==
    << "A", "B", "C", "D", "E", "F", "G", "H", "I", "J", "K", "L", "M",
       "N", "O", "P", "Q", "R", "S", "T", "U", "V", "W", "X", "Y", "Z" >>

\* str.upper() on one character, and on a string
UpperChar(c) ==
    IF \E i \in 1..Len(LowerLetters) : LowerLetters[i] = c
    THEN UpperLetters[CHOOSE i \in 1..Len(LowerLetters) : LowerLetters[i] = c]
    ELSE c
Upper(cs) == [i \in 1..Len(cs) |-> UpperChar(cs[i])]

\* the class attribute MAPPING_TYPES, in insertion order
MAPPING_TYPES ==
    << [key |-> <<"R", "O", "A", "D", "S">>, value |-> "Roads"],
       [key |-> <<"B", "U", "I", "L", "D", "I", "N", "G", "S">>, value |-> "Buildings"],
       [key |-> <<"W", "A", "T", "E", "R", "W", "A", "Y", "S">>, value |-> "Waterways"],
       [key |-> <<"L", "A", "N", "D", "_", "U", "S", "E">>, value |-> "Landuse"] >>

\* MAPPING_TYPES.get(key)
MappingTypesGet(key) ==
    IF \E i \in 1..Len(MAPPING_TYPES) : MAPPING_TYPES[i].key = key
    THEN MAPPING_TYPES[CHOOSE i \in 1..Len(MAPPING_TYPES) : MAPPING_TYPES[i].key = key].value
    ELSE None

\* get_mapping_list with a case-sensitive lookup: no input_value.upper()
get_mapping_list_CaseSensitive(input_value) ==
    IF input_value.type = "int"
    THEN LET v == input_value.int - 1 IN
         IF 0 <= v /\ v < Len(MAPPING_TYPES) THEN MAPPING_TYPES[v + 1].value ELSE None
    ELSE IF input_value.type = "str"
    THEN MappingTypesGet(input_value.chars)
    ELSE None

\* get_mapping_list without "input_value -= 1": a 0-based ordinal
get_mapping_list_NoDecrement(input_value) ==
    IF input_value.type = "int"
    THEN LET v == input_value.int IN
         IF 0 <= v /\ v < Len(MAPPING_TYPES) THEN MAPPING_TYPES[v + 1].value ELSE None
    ELSE IF input_value.type = "str"
    THEN MappingTypesGet(Upper(input_value.chars))
    ELSE None

\* get_mapping_list(input_value): the canonical name, or None
get_mapping_list(input_value) ==
    IF input_value.type = "int"
    THEN LET v == input_value.int - 1 IN
         IF 0 <= v /\ v < Len(MAPPING_TYPES) THEN MAPPING_TYPES[v + 1].value ELSE None
    ELSE IF input_value.type = "str"
    THEN MappingTypesGet(Upper(input_value.chars))
    ELSE None

\* the list mapping_types process_project builds from mapping_types_raw
RECURSIVE NormalizedTypes(_)
NormalizedTypes(raw) ==
    IF raw = <<>> THEN <<>>
    ELSE LET mapping_type_return == get_mapping_list(Head(raw)) IN
         IF mapping_type_return # None
         THEN <<mapping_type_return>> \o NormalizedTypes(Tail(raw))
         ELSE NormalizedTypes(Tail(raw))

\* the mapping-type loop of process_project is not running
MapIdle ==
    /\ map_raw = <<>> /\ map_pc = "idle" /\ map_idx = 0
    /\ map_ret = NoReturn /\ map_types = <<>>

-----------------------------------------------------------------------------
(* The extraction-config template and generate_filtered_config *)

\* a template with one category per canonical name; the Waterways entry is
\* an empty sub-configuration and Roads has a second, later entry
CanonicalTemplate ==
    [has_dataset |-> TRUE,
     dataset |-> [dataset_prefix |-> <<"template_prefix">>,
                  dataset_title |-> <<"template_title">>],
     categories |-> << [key |-> "Roads", value |-> "roads_cfg"],
                       [key |-> "Buildings", value |-> "buildings_cfg"],
                       [key |-> "Waterways", value |-> "{}"],
                       [key |-> "Roads", value |-> "roads_cfg_2"] >>]

\* a template whose category keys are written in upper case
UpperCaseTemplate ==
    [has_dataset |-> TRUE,
     dataset |-> [dataset_prefix |-> <<"template_prefix">>,
                  dataset_title |-> <<"template_title">>],
     categories |-> << [key |-> "ROADS", value |-> "roads_cfg"],
                       [key |-> "BUILDINGS", value |-> "buildings_cfg"] >>]

\* a JSON template without a dataset section
NoDatasetTemplate ==
    [has_dataset |-> FALSE,
     dataset |-> [dataset_prefix |-> <<>>, dataset_title |-> <<>>],
     categories |-> << [key |-> "Roads", value |-> "roads_cfg"] >>]

Templates == {CanonicalTemplate, UpperCaseTemplate, NoDatasetTemplate}

\* a value Python treats as false in "if value"
Falsy(value) == value \in {None, "{}"}

\* extract_values taking the last category with the key
extract_values_LastMatch(categories_list, key) ==
    IF \E i \in 1..Len(categories_list) : categories_list[i].key = key
    THEN categories_list[CHOOSE i \in 1..Len(categories_list) :
                           /\ categories_list[i].key = key
                           /\ \A j \in (i + 1)..Len(categories_list) :
                                 categories_list[j].key # key].value
    ELSE None

\* extract_values(categories_list, key): the first category with the key
extract_values(categories_list, key) ==
    IF \E i \in 1..Len(categories_list) : categories_list[i].key = key
    THEN categories_list[CHOOSE i \in 1..Len(categories_list) :
                           /\ categories_list[i].key = key
                           /\ \A j \in 1..(i - 1) : categories_list[j].key # key].value
    ELSE None

\* the items of the dict extracted_values that pass "if value"
ExtractedItems(categories_list, mapping_types) ==
    {[key |-> k, value |-> extract_values(categories_list, k)] :
        k \in {n \in {mapping_types[i] : i \in 1..Len(mapping_types)} :
                 ~Falsy(extract_values(categories_list, n))}}

\* the lists that hold every element of a set once: a dict built from a set
\* of strings is iterated in no fixed order
Orderings(S) ==
    {f \in [1..Cardinality(S) -> S] : \A i, j \in 1..Cardinality(S) : f[i] = f[j] => i = j}

\* the document generate_filtered_config builds, given its categories list
DerivedConfig(cfg, project_id, modified_categories, geometry) ==
    [dataset |-> [dataset_prefix |-> <<"hotosm_project_", project_id>>,
                  dataset_title |-> <<"Tasking Manger Project ", project_id>>],
     categories |-> modified_categories,
     geometry |-> geometry]

\* generate_filtered_config iterating over mapping_types, not set(mapping_types)
generate_filtered_config_NoDedup(cfg, project_id, mapping_types, geometry) ==
    [raised |-> ~cfg.has_dataset,
     config |-> cfg,
     bodies |-> {DerivedConfig(cfg, project_id,
                    SelectSeq([i \in 1..Len(mapping_types) |->
                                 [key |-> mapping_types[i],
                                  value |-> extract_values(cfg.categories, mapping_types[i])]],
                              LAMBDA entry : ~Falsy(entry.value)),
                    geometry)}]

\* generate_filtered_config working on self.config itself, without the deep
\* copy: the template becomes the document built
generate_filtered_config_InPlace(cfg, project_id, mapping_types, geometry) ==
    [raised |-> ~cfg.has_dataset,
     config |-> IF cfg.has_dataset
                THEN [cfg EXCEPT
                        !.dataset = DerivedConfig(cfg, project_id, <<>>, geometry).dataset,
                        !.categories =
                            CHOOSE cats \in Orderings(ExtractedItems(cfg.categories,
                                                                      mapping_types)) : TRUE]
                ELSE cfg,
     bodies |-> {DerivedConfig(cfg, project_id, cats, geometry) :
                    cats \in Orderings(ExtractedItems(cfg.categories, mapping_types))}]

\* generate_filtered_config(project_id, mapping_types, geometry): whether it
\* raises (KeyError on a template without dataset), self.config after the
\* call (the deep copy leaves it as it was), and the documents it can return
generate_filtered_config(cfg, project_id, mapping_types, geometry) ==
    [raised |-> ~cfg.has_dataset,
     config |-> cfg,
     bodies |-> {DerivedConfig(cfg, project_id, cats, geometry) :
                    cats \in Orderings(ExtractedItems(cfg.categories, mapping_types))}]

\* no request body
NoRequestBody == DerivedConfig(NoDatasetTemplate, 0, <<>>, "")

\* what the path CONFIG_JSON holds: no file, a file that is not JSON, or a
\* JSON document
ConfigFile(kind, template) == [kind |-> kind, template |-> template]

\* the arguments of a call of generate_filtered_config
BuildArgs(project_id, mapping_types, geometry) ==
    [project_id |-> project_id, mapping_types |-> mapping_types, geometry |-> geometry]

\* main is not running, and generate_filtered_config is not called on its own
RunIdle ==
    /\ main_pc = "idle" /\ config_file = ConfigFile("json", config) /\ auth_token = TRUE
    /\ build_pc = "idle" /\ build_args = BuildArgs(0, <<>>, "") /\ build_ret = NoReturn

-----------------------------------------------------------------------------
(* Projects *)

\* project ids given to init_call
ProjectIds == {7, 8}

\* geometries the project service answers with
Geometries == {"geom_a"}

\* the strings "roads" and "OTHER"
Str_roads == <<"r", "o", "a", "d", "s">>
Str_OTHER == <<"O", "T", "H", "E", "R">>

\* mappingTypes values of the project service's answers
MappingTypeLists ==
    { <<>>,
      <<StrToken(Str_roads), IntToken(2)>>,
      <<IntToken(1), StrToken(Str_roads)>>,
      <<StrToken(Str_OTHER)>> }

\* the feature get_project_details builds, or one of the active-projects list
Feature(project_id, mapping_types, geometry) ==
    [project_id |-> project_id, mapping_types |-> mapping_types, geometry |-> geometry]

\* process_project without its try/except: the KeyError of a project that
\* has no geometry leaves the coroutine
process_project_NoCatch(cfg, project) ==
    IF ~project.geometry.present
    THEN [outcome |-> "raise", config |-> cfg, bodies |-> {}]
    ELSE IF project.mapping_types.present /\ project.mapping_types.value # <<>>
              /\ Len(NormalizedTypes(project.mapping_types.value)) > 0
    THEN LET g == generate_filtered_config(cfg, project.project_id,
                                           NormalizedTypes(project.mapping_types.value),
                                           project.geometry.value)
         IN  IF g.raised
             THEN [outcome |-> "raise", config |-> g.config, bodies |-> {}]
             ELSE [outcome |-> "submit", config |-> g.config, bodies |-> g.bodies]
    ELSE [outcome |-> "skip", config |-> cfg, bodies |-> {}]

\* process_project without the tests "if mapping_types_raw" and
\* "if len(mapping_types) > 0": every project with a geometry is submitted
process_project_NoSkip(cfg, project) ==
    IF ~project.geometry.present
    THEN [outcome |-> "error", config |-> cfg, bodies |-> {}]
    ELSE LET mapping_types == IF project.mapping_types.present
                              THEN NormalizedTypes(project.mapping_types.value)
                              ELSE <<>>
             g == generate_filtered_config(cfg, project.project_id, mapping_types,
                                           project.geometry.value)
         IN  IF g.raised
             THEN [outcome |-> "error", config |-> g.config, bodies |-> {}]
             ELSE [outcome |-> "submit", config |-> g.config, bodies |-> g.bodies]

\* process_project(project) up to its await: the project is skipped, an
\* exception is caught and logged ("error"), or request_config is built
\* and submitted; an exception that escaped would be "raise"
process_project(cfg, project) ==
    IF ~project.geometry.present
    THEN [outcome |-> "error", config |-> cfg, bodies |-> {}]
    ELSE IF project.mapping_types.present /\ project.mapping_types.value # <<>>
    THEN LET mapping_types == NormalizedTypes(project.mapping_types.value) IN
         IF Len(mapping_types) > 0
         THEN LET g == generate_filtered_config(cfg, project.project_id, mapping_types,
                                                project.geometry.value)
              IN  IF g.raised
                  THEN [outcome |-> "error", config |-> g.config, bodies |-> {}]
                  ELSE [outcome |-> "submit", config |-> g.config, bodies |-> g.bodies]
         ELSE [outcome |-> "skip", config |-> cfg, bodies |-> {}]
    ELSE [outcome |-> "skip", config |-> cfg, bodies |-> {}]

\* init_call is not called, and neither are the resolver's coroutines
TmIdle ==
    /\ details_pc = "idle" /\ details_id = 0 /\ details_retry = 0
    /\ details_ret = NoReturn /\ details_trace = <<>>
    /\ active_pc = "idle" /\ active_retry = 0
    /\ active_ret = NoReturn /\ active_trace = <<>> /\ active_failures = 0
    /\ projects = <<>> /\ fetch_active_projects = Absent
    /\ init_pc = "idle" /\ init_idx = 0
    /\ all_project_details = <<>> /\ init_task_ids = <<>>
    /\ init_ret = NoReturn /\ resolve_log = <<>> /\ process_log = <<>>

\* request bodies a caller of retry_post_request passes
RequestBodies ==
    generate_filtered_config(CanonicalTemplate, 7, <<"Roads">>, "geom_a").bodies

-----------------------------------------------------------------------------
(* retry_post_request, handle_rate_limit *)

\* retry_post_request with the rate-limit wait taken on attempt 0 only
PostBranch_WaitOnce(attempt, resp, maxr) ==
    IF resp.kind = "ok"
    THEN IF resp.task_id = NoField
         THEN [done |-> TRUE, ret |-> ReturnedNone, wait |-> <<>>]
         ELSE [done |-> TRUE, ret |-> Returned(resp.task_id), wait |-> <<>>]
    ELSE IF resp.kind = "status"
    THEN IF resp.status \in {429, 502} /\ attempt < maxr
         THEN [done |-> FALSE, ret |-> NoReturn,
               wait |-> IF attempt = 0
                        THEN <<Sleep("rate_limit", rate_limit_wait)>> ELSE <<>>]
         ELSE IF attempt = maxr
         THEN [done |-> TRUE, ret |-> ReturnedNone, wait |-> <<>>]
         ELSE [done |-> FALSE, ret |-> NoReturn, wait |-> <<>>]
    ELSE IF attempt < maxr
         THEN [done |-> FALSE, ret |-> NoReturn,
               wait |-> <<Sleep("backoff", Pow(backoff_base, attempt))>>]
         ELSE [done |-> TRUE, ret |-> ReturnedNone, wait |-> <<>>]

\* retry_post_request with a body without task_id handled like an exception
\* (as result["task_id"] without the membership test would be)
PostBranch_MissingTaskIdRetried(attempt, resp, maxr) ==
    IF resp.kind = "ok" /\ resp.task_id # NoField
    THEN [done |-> TRUE, ret |-> Returned(resp.task_id), wait |-> <<>>]
    ELSE IF resp.kind = "status"
    THEN IF resp.status \in {429, 502} /\ attempt < maxr
         THEN [done |-> FALSE, ret |-> NoReturn,
               wait |-> <<Sleep("rate_limit", rate_limit_wait)>>]
         ELSE IF attempt = maxr
         THEN [done |-> TRUE, ret |-> ReturnedNone, wait |-> <<>>]
         ELSE [done |-> FALSE, ret |-> NoReturn, wait |-> <<>>]
    ELSE IF attempt < maxr
         THEN [done |-> FALSE, ret |-> NoReturn,
               wait |-> <<Sleep("backoff", Pow(backoff_base, attempt))>>]
         ELSE [done |-> TRUE, ret |-> ReturnedNone, wait |-> <<>>]

\* one iteration of the for loop of retry_post_request: what the attempt's
\* response makes the code do (return a value, or sleep and go on)
PostBranch(attempt, resp, maxr) ==
    IF resp.kind = "ok"
    THEN IF resp.task_id = NoField
         THEN [done |-> TRUE, ret |-> ReturnedNone, wait |-> <<>>]
         ELSE [done |-> TRUE, ret |-> Returned(resp.task_id), wait |-> <<>>]
    ELSE IF resp.kind = "status"
    THEN IF resp.status \in {429, 502} /\ attempt < maxr
         THEN [done |-> FALSE, ret |-> NoReturn,
               wait |-> <<Sleep("rate_limit", rate_limit_wait)>>]
         ELSE IF attempt = maxr
         THEN [done |-> TRUE, ret |-> ReturnedNone, wait |-> <<>>]
         ELSE [done |-> FALSE, ret |-> NoReturn, wait |-> <<>>]
    ELSE IF attempt < maxr
         THEN [done |-> FALSE, ret |-> NoReturn,
               wait |-> <<Sleep("backoff", Pow(backoff_base, attempt))>>]
         ELSE [done |-> TRUE, ret |-> ReturnedNone, wait |-> <<>>]

\* the call retry_post_request(request_config): attempt 0 is about to be sent
StartPost(request_config) ==
    /\ post_pc' = "request"
    /\ post_attempt' = 0
    /\ post_ret' = NoReturn
    /\ post_trace' = <<>>
    /\ post_body' = request_config

\* one attempt of retry_post_request and the branch taken on its response; a
\* loop that runs out of attempts falls off the function, which returns None
PostAttempt ==
    /\ post_pc = "request"
    /\ \E resp \in PostResponses :
          LET b == PostBranch(post_attempt, resp, PostMaxRetries) IN
          /\ post_trace' = Log(post_trace, <<Request(resp)>> \o b.wait)
          /\ IF b.done
             THEN /\ post_pc' = "returned"
                  /\ post_ret' = b.ret
                  /\ post_attempt' = post_attempt
             ELSE IF post_attempt + 1 < PostMaxRetries + 1
             THEN /\ post_pc' = "request"
                  /\ post_ret' = post_ret
                  /\ post_attempt' = post_attempt + 1
             ELSE /\ post_pc' = "returned"
                  /\ post_ret' = ReturnedNone
                  /\ post_attempt' = post_attempt
    /\ UNCHANGED <<cfg_vars, map_vars, run_vars, post_body, get_vars, track_vars, tm_vars>>

-----------------------------------------------------------------------------
(* retry_get_request *)

\* retry_get_request returning the error without a status field
ErrorResult_NoStatus(resp) ==
    [status |-> NoField, result |-> NoField, message |-> StrOfError(resp)]

\* the dict retry_get_request returns once its attempts are used up
ErrorResult(resp) ==
    [status |-> "ERROR", result |-> NoField, message |-> StrOfError(resp)]

\* retry_get_request with the last attempt treated like the earlier ones
\* (attempt <= self.max_retries): it sleeps and the loop runs out
GetBranch_NoLastReturn(attempt, resp, maxr) ==
    IF resp.kind = "ok"
    THEN [done |-> TRUE, ret |-> Returned(resp.body), wait |-> <<>>]
    ELSE [done |-> FALSE, ret |-> NoReturn,
          wait |-> <<Sleep("backoff", Pow(backoff_base, attempt))>>]

\* retry_get_request sleeping backoff_base seconds whatever the attempt
GetBranch_FixedWait(attempt, resp, maxr) ==
    IF resp.kind = "ok"
    THEN [done |-> TRUE, ret |-> Returned(resp.body), wait |-> <<>>]
    ELSE IF attempt < maxr
         THEN [done |-> FALSE, ret |-> NoReturn,
               wait |-> <<Sleep("backoff", backoff_base)>>]
         ELSE [done |-> TRUE, ret |-> Returned(ErrorResult(resp)), wait |-> <<>>]

\* one iteration of the for loop of retry_get_request
GetBranch(attempt, resp, maxr) ==
    IF resp.kind = "ok"
    THEN [done |-> TRUE, ret |-> Returned(resp.body), wait |-> <<>>]
    ELSE IF attempt < maxr
         THEN [done |-> FALSE, ret |-> NoReturn,
               wait |-> <<Sleep("backoff", Pow(backoff_base, attempt))>>]
         ELSE [done |-> TRUE, ret |-> Returned(ErrorResult(resp)), wait |-> <<>>]

\* the call retry_get_request(url): attempt 0 is about to be sent
StartGet ==
    /\ get_pc' = "request"
    /\ get_attempt' = 0
    /\ get_ret' = NoReturn
    /\ get_trace' = <<>>

\* one attempt of retry_get_request and the branch taken on its response
GetAttempt ==
    /\ get_pc = "request"
    /\ \E resp \in GetResponses :
          LET b == GetBranch(get_attempt, resp, max_retries) IN
          /\ get_trace' = Log(get_trace, <<Request(resp)>> \o b.wait)
          /\ IF b.done
             THEN /\ get_pc' = "returned"
                  /\ get_ret' = b.ret
                  /\ get_attempt' = get_attempt
             ELSE IF get_attempt + 1 < max_retries + 1
             THEN /\ get_pc' = "request"
                  /\ get_ret' = get_ret
                  /\ get_attempt' = get_attempt + 1
             ELSE /\ get_pc' = "returned"
                  /\ get_ret' = ReturnedNone
                  /\ get_attempt' = get_attempt
    /\ UNCHANGED <<cfg_vars, map_vars, run_vars, post_vars, track_vars, tm_vars>>

\* no call of retry_post_request or retry_get_request is under way
RetryIdle ==
    /\ post_pc = "idle" /\ post_attempt = 0 /\ post_ret = NoReturn /\ post_trace = <<>>
    /\ post_body = NoRequestBody
    /\ get_pc = "idle" /\ get_attempt = 0 /\ get_ret = NoReturn /\ get_trace = <<>>

-----------------------------------------------------------------------------
(* track_tasks_status *)

\* job ids a tracking run is given
JobIds == {"j1", "j2"}

\* the argument task_ids: no job, one job, two jobs, the same job twice
TaskIdLists == {<<>>, <<"j1">>, <<"j1", "j2">>, <<"j1", "j1">>}

\* result.json: not written, or written with the JSON dump of a dict
NotWritten == [written |-> FALSE]
Written(d) == [written |-> TRUE, content |-> d]

\* the values track_tasks_status stores in results
Payload(p) == [kind |-> "payload", text |-> p]
Null == [kind |-> "null", text |-> "null"]
Placeholder == [kind |-> "placeholder", text |-> "No result available"]
FailureString(m) == [kind |-> "failure", text |-> m]

\* response.get("result")
GetResult(body) == IF body.result = NoField THEN Null ELSE Payload(body.result)

\* response.get("result", "No result available")
GetResultOrPlaceholder(body) ==
    IF body.result = NoField THEN Placeholder ELSE Payload(body.result)

\* f"FAILURE: {response.get('message', 'Unknown error')}"
FailureOf(body) ==
    FailureString(IF body.message = NoField THEN "Unknown error" ELSE body.message)

\* the branch of the if / elif / else taken on the first response for a job
FirstPollBranch(body) ==
    IF body.status = "SUCCESS"
    THEN [record |-> TRUE, value |-> GetResult(body)]
    ELSE IF body.status \in {"PENDING", "STARTED"}
    THEN [record |-> FALSE, value |-> Null]
    ELSE [record |-> TRUE, value |-> FailureOf(body)]

\* the while loop with ERROR missing from its list of terminal statuses
LoopPollBranch_ErrorNotTerminal(body) ==
    IF body.status \in {"SUCCESS", "FAILURE"}
    THEN [record |-> TRUE, value |-> GetResultOrPlaceholder(body)]
    ELSE [record |-> FALSE, value |-> Null]

\* the while loop with the result key never found: the placeholder is stored
LoopPollBranch_NoPayload(body) ==
    IF body.status \in {"SUCCESS", "ERROR", "FAILURE"}
    THEN [record |-> TRUE, value |-> Placeholder]
    ELSE [record |-> FALSE, value |-> Null]

\* the branch taken in the while True loop on a later response for the job
LoopPollBranch(body) ==
    IF body.status \in {"SUCCESS", "ERROR", "FAILURE"}
    THEN [record |-> TRUE, value |-> GetResultOrPlaceholder(body)]
    ELSE [record |-> FALSE, value |-> Null]

\* events of track_trace
Poll(body) == [ev |-> "poll", status |-> body.status]
PollSleep == Sleep("poll", task_poll_interval)

\* results rebound to a fresh dict that holds the one entry
Store_Rebind(d, task_id, value) == [k \in {task_id} |-> value]

\* results without any entry: the assignment results[task_id] = value is lost
Store_Nothing(d, task_id, value) == d

\* results[task_id] = value
Store(d, task_id, value) ==
    [k \in DOMAIN d \cup {task_id} |-> IF k = task_id THEN value ELSE d[k]]

\* the task_id of the for loop
CurrentTask == task_ids[track_idx]

\* track_tasks_status(task_ids) up to its first await: the early return on
\* an empty list, or the first status request of the first job
TrackStart ==
    /\ track_pc = "start"
    /\ IF task_ids = <<>>
       THEN /\ track_pc' = "returned"
            /\ UNCHANGED <<track_idx, get_vars>>
       ELSE /\ track_pc' = "first_poll"
            /\ track_idx' = 1
            /\ StartGet
    /\ results' = <<>>
    /\ track_trace' = <<>>
    /\ track_first_try' = TRUE
    /\ UNCHANGED <<cfg_vars, map_vars, run_vars, post_vars, task_ids, report, tm_vars>>

\* the first response for a job: record it, or sleep and poll again
TrackFirstResponse ==
    /\ track_pc = "first_poll"
    /\ get_pc = "returned"
    /\ IF get_ret.none
       THEN \* None.get raises AttributeError, which nothing catches
            /\ track_pc' = "raised"
            /\ UNCHANGED <<results, track_trace, get_vars>>
       ELSE LET body == get_ret.value
                b == FirstPollBranch(body)
            IN  IF b.record
                THEN /\ results' = Store(results, CurrentTask, b.value)
                     /\ track_trace' = track_trace \o <<Poll(body)>>
                     /\ track_pc' = "next"
                     /\ UNCHANGED get_vars
                ELSE /\ track_trace' = track_trace \o <<Poll(body), PollSleep>>
                     /\ track_pc' = "loop_poll"
                     /\ StartGet
                     /\ UNCHANGED results
    /\ track_first_try' = (track_first_try /\ get_attempt = 0)
    /\ UNCHANGED <<cfg_vars, map_vars, run_vars, post_vars, task_ids, track_idx, report, tm_vars>>

\* a later response for a job: record it and leave the while loop, or sleep
\* and poll again
TrackLoopResponse ==
    /\ track_pc = "loop_poll"
    /\ get_pc = "returned"
    /\ IF get_ret.none
       THEN /\ track_pc' = "raised"
            /\ UNCHANGED <<results, track_trace, get_vars>>
       ELSE LET body == get_ret.value
                b == LoopPollBranch(body)
            IN  IF b.record
                THEN /\ results' = Store(results, CurrentTask, b.value)
                     /\ track_trace' = track_trace \o <<Poll(body)>>
                     /\ track_pc' = "next"
                     /\ UNCHANGED get_vars
                ELSE /\ Len(SelectSeq(track_trace, LAMBDA e : e.ev = "poll")) + 1 < MaxPolls
                     /\ track_trace' = track_trace \o <<Poll(body), PollSleep>>
                     /\ track_pc' = "loop_poll"
                     /\ StartGet
                     /\ UNCHANGED results
    /\ track_first_try' = (track_first_try /\ get_attempt = 0)
    /\ UNCHANGED <<cfg_vars, map_vars, run_vars, post_vars, task_ids, track_idx, report, tm_vars>>

\* track_tasks_status with the dump of results inside the for loop: the
\* report is rewritten after every job
TrackNext_DumpPerJob ==
    /\ track_pc = "next"
    /\ report' = Written(results)
    /\ IF track_idx < Len(task_ids)
       THEN /\ track_idx' = track_idx + 1
            /\ track_trace' = <<>>
            /\ track_first_try' = TRUE
            /\ track_pc' = "first_poll"
            /\ StartGet
       ELSE /\ track_pc' = "returned"
            /\ UNCHANGED <<track_idx, track_trace, track_first_try, get_vars>>
    /\ UNCHANGED <<cfg_vars, map_vars, run_vars, post_vars, task_ids, results, tm_vars>>

\* the end of the for loop's body: the next job's first status request, or
\* after the last job the dump of results to result.json (which may fail
\* with IOError, logged and swallowed)
TrackNext ==
    /\ track_pc = "next"
    /\ IF track_idx < Len(task_ids)
       THEN /\ track_idx' = track_idx + 1
            /\ track_trace' = <<>>
            /\ track_first_try' = TRUE
            /\ track_pc' = "first_poll"
            /\ StartGet
            /\ UNCHANGED report
       ELSE /\ track_pc' = "returned"
            /\ \E io_ok \in BOOLEAN :
                  report' = IF io_ok THEN Written(results) ELSE report
            /\ UNCHANGED <<track_idx, track_trace, track_first_try, get_vars>>
    /\ UNCHANGED <<cfg_vars, map_vars, run_vars, post_vars, task_ids, results, tm_vars>>

\* track_tasks_status is not called
TrackIdle ==
    /\ task_ids = <<>> /\ track_pc = "idle" /\ track_idx = 0
    /\ results = <<>> /\ track_trace = <<>> /\ track_first_try = TRUE
    /\ report = NotWritten

\* one tracking run, for every list of job ids and every answer to its polls
TrackInit ==
    /\ max_retries \in 0..MaxRetriesCfg
    /\ config = CanonicalTemplate
    /\ config_json = config
    /\ tracing = FALSE
    /\ MapIdle
    /\ RunIdle
    /\ RetryIdle
    /\ TmIdle
    /\ task_ids \in TaskIdLists
    /\ track_pc = "start" /\ track_idx = 0
    /\ results = <<>> /\ track_trace = <<>> /\ track_first_try = TRUE
    /\ report = NotWritten

TrackNextStep ==
    TrackStart \/ GetAttempt \/ TrackFirstResponse \/ TrackLoopResponse \/ TrackNext

SpecTrack == TrackInit /\ [][TrackNextStep]_vars

-----------------------------------------------------------------------------
(* get_project_details *)

\* the JSON object GET {base}/projects/{id}/ answers with
DetailsBodies ==
    [mappingTypes : {Absent} \cup {Field(l) : l \in MappingTypeLists},
     areaOfInterest : {Absent} \cup {Field(g) : g \in Geometries}]

NoDetails == [mappingTypes |-> Absent, areaOfInterest |-> Absent]

\* one GET attempt of get_project_details
DetailsResponses ==
    [kind : {"ok"}, status : {200}, body : DetailsBodies]
        \cup {[kind |-> f.kind, status |-> f.status, body |-> NoDetails] : f \in Failures}

\* get_project_details without the break on 404
DetailsBranch_404Retried(retry, resp, project_id) ==
    IF resp.kind = "ok"
    THEN IF resp.body.mappingTypes.present /\ resp.body.areaOfInterest.present
         THEN [exit |-> "return",
               ret |-> Returned(Feature(project_id, resp.body.mappingTypes,
                                        resp.body.areaOfInterest)),
               wait |-> <<>>]
         ELSE [exit |-> "continue", ret |-> NoReturn, wait |-> <<>>]
    ELSE [exit |-> "sleep", ret |-> NoReturn,
          wait |-> <<Sleep("backoff", Pow(backoff_base, retry))>>]

\* one iteration of the for loop of get_project_details: return the
\* feature, continue, break, or fall through to the backoff sleep
DetailsBranch(retry, resp, project_id) ==
    IF resp.kind = "ok"
    THEN IF resp.body.mappingTypes.present /\ resp.body.areaOfInterest.present
         THEN [exit |-> "return",
               ret |-> Returned(Feature(project_id, resp.body.mappingTypes,
                                        resp.body.areaOfInterest)),
               wait |-> <<>>]
         ELSE [exit |-> "continue", ret |-> NoReturn, wait |-> <<>>]
    ELSE IF resp.kind = "status" /\ resp.status = 404
    THEN [exit |-> "break", ret |-> NoReturn, wait |-> <<>>]
    ELSE [exit |-> "sleep", ret |-> NoReturn,
          wait |-> <<Sleep("backoff", Pow(backoff_base, retry))>>]

\* get_project_details looping over range(self.max_retries + 1): a first
\* request is always sent
StartDetails_AlwaysAttempt(project_id) ==
    /\ details_id' = project_id
    /\ details_retry' = 0
    /\ details_trace' = <<>>
    /\ details_pc' = "request" /\ details_ret' = NoReturn

\* the call get_project_details(project_id): range(self.max_retries) may be empty
StartDetails(project_id) ==
    /\ details_id' = project_id
    /\ details_retry' = 0
    /\ details_trace' = <<>>
    /\ IF max_retries > 0
       THEN details_pc' = "request" /\ details_ret' = NoReturn
       ELSE details_pc' = "returned" /\ details_ret' = ReturnedNone

\* one attempt of get_project_details and the branch taken on its response;
\* after a break, or when the loop runs out, the function returns None
DetailsAttempt ==
    /\ details_pc = "request"
    /\ \E resp \in DetailsResponses :
          LET b == DetailsBranch(details_retry, resp, details_id) IN
          /\ details_trace' = Log(details_trace, <<Request(resp)>> \o b.wait)
          /\ IF b.exit = "return"
             THEN /\ details_pc' = "returned"
                  /\ details_ret' = b.ret
                  /\ details_retry' = details_retry
             ELSE IF b.exit = "break" \/ ~(details_retry + 1 < max_retries)
             THEN /\ details_pc' = "returned"
                  /\ details_ret' = ReturnedNone
                  /\ details_retry' = details_retry
             ELSE /\ details_pc' = "request"
                  /\ details_ret' = details_ret
                  /\ details_retry' = details_retry + 1
    /\ UNCHANGED <<cfg_vars, map_vars, run_vars, post_vars, get_vars, track_vars, details_id,
                   active_vars, init_vars>>

-----------------------------------------------------------------------------
(* get_active_projects *)

\* a feature of the active-projects answer that process_project can submit,
\* one with unsupported mapping types, one without a geometry key, and one
\* whose properties have no mapping_types
ActiveFeatures ==
    { Feature(21, Field(<<IntToken(1)>>), Field("geom_b")),
      Feature(22, Field(<<StrToken(Str_OTHER)>>), Field("geom_b")),
      Feature(23, Field(<<IntToken(1)>>), Absent),
      Feature(24, Absent, Field("geom_b")) }

\* values of the features field
ActiveFeatureLists ==
    {<<>>} \cup {<<f>> : f \in ActiveFeatures}
        \cup { << Feature(23, Field(<<IntToken(1)>>), Absent),
                  Feature(21, Field(<<IntToken(1)>>), Field("geom_b")) >> }

\* the JSON object GET {base}/projects/queries/active/ answers with
ActiveBodies == [features : {Absent} \cup {Field(l) : l \in ActiveFeatureLists}]

\* one GET attempt of get_active_projects
ActiveResponses ==
    [kind : {"ok"}, status : {200}, body : ActiveBodies]
        \cup {[kind |-> f.kind, status |-> f.status, body |-> [features |-> Absent]] :
                 f \in Failures}

\* the attempt got no list of features: raise_for_status or the request
\* raised, or the JSON object has no features field
ActiveAttemptFailed(resp) == resp.kind # "ok" \/ ~resp.body.features.present

\* get_active_projects returning data.get("features", []): an answer
\* without features gives an empty list
ActiveBranch_EmptyOnMissing(retry, resp) ==
    IF resp.kind = "ok"
    THEN IF resp.body.features.present
         THEN [exit |-> "return", ret |-> Returned(resp.body.features.value), wait |-> <<>>]
         ELSE [exit |-> "return", ret |-> Returned(<<>>), wait |-> <<>>]
    ELSE [exit |-> "sleep", ret |-> NoReturn,
          wait |-> <<Sleep("backoff", Pow(backoff_base, retry))>>]

\* one iteration of the for loop of get_active_projects
ActiveBranch(retry, resp) ==
    IF resp.kind = "ok"
    THEN IF resp.body.features.present
         THEN [exit |-> "return", ret |-> Returned(resp.body.features.value), wait |-> <<>>]
         ELSE [exit |-> "continue", ret |-> NoReturn, wait |-> <<>>]
    ELSE [exit |-> "sleep", ret |-> NoReturn,
          wait |-> <<Sleep("backoff", Pow(backoff_base, retry))>>]

\* the call get_active_projects(time_interval)
StartActive ==
    /\ active_retry' = 0
    /\ active_trace' = <<>>
    /\ active_failures' = 0
    /\ IF max_retries > 0
       THEN active_pc' = "request" /\ active_ret' = NoReturn
       ELSE active_pc' = "returned" /\ active_ret' = ReturnedNone

\* one attempt of get_active_projects and the branch taken on its response
ActiveAttempt ==
    /\ active_pc = "request"
    /\ \E resp \in ActiveResponses :
          LET b == ActiveBranch(active_retry, resp) IN
          /\ active_trace' = Log(active_trace, <<Request(resp)>> \o b.wait)
          /\ active_failures' = IF ActiveAttemptFailed(resp)
                                THEN active_failures + 1
                                ELSE active_failures
          /\ IF b.exit = "return"
             THEN /\ active_pc' = "returned"
                  /\ active_ret' = b.ret
                  /\ active_retry' = active_retry
             ELSE IF ~(active_retry + 1 < max_retries)
             THEN /\ active_pc' = "returned"
                  /\ active_ret' = ReturnedNone
                  /\ active_retry' = active_retry
             ELSE /\ active_pc' = "request"
                  /\ active_ret' = active_ret
                  /\ active_retry' = active_retry + 1
    /\ UNCHANGED <<cfg_vars, map_vars, run_vars, post_vars, get_vars, track_vars, details_vars, init_vars>>

-----------------------------------------------------------------------------
(* init_call, with process_project *)

\* "if active_project_details:" is false for None and for an empty list
Truthy(ret) == ret.returned /\ ~ret.none /\ ret.value # <<>>

\* task_ids.insert(0, task_id) in place of task_ids.append(task_id)
AppendTaskId_Front(ids, ret) ==
    IF ret.returned /\ ~ret.none THEN <<ret.value>> \o ids ELSE ids

\* "if task_id: task_ids.append(task_id)": the list after process_project
\* returned ret (a task id is a non-empty string)
AppendTaskId(ids, ret) ==
    IF ret.returned /\ ~ret.none THEN Append(ids, ret.value) ELSE ids

\* an entry of process_log
Processed(project, outcome, ret) == [project |-> project, outcome |-> outcome, ret |-> ret]

\* init_call up to its first await: with projects supplied, the first
\* get_project_details call
InitStart ==
    /\ init_pc = "start"
    /\ all_project_details' = <<>>
    /\ IF projects # <<>>
       THEN /\ init_pc' = "resolve"
            /\ init_idx' = 1
            /\ resolve_log' = resolve_log \o <<projects[1]>>
            /\ StartDetails(projects[1])
       ELSE /\ init_pc' = "fetch"
            /\ UNCHANGED <<init_idx, resolve_log, details_vars>>
    /\ UNCHANGED <<cfg_vars, map_vars, run_vars, post_vars, get_vars, track_vars, active_vars, projects,
                   fetch_active_projects, init_task_ids, init_ret, process_log>>

\* get_project_details returned: keep the feature if there is one, and
\* resolve the next project id
InitResolved ==
    /\ init_pc = "resolve"
    /\ details_pc = "returned"
    /\ all_project_details' =
          IF details_ret.returned /\ ~details_ret.none
          THEN Append(all_project_details, details_ret.value)
          ELSE all_project_details
    /\ IF init_idx < Len(projects)
       THEN /\ init_pc' = "resolve"
            /\ init_idx' = init_idx + 1
            /\ resolve_log' = resolve_log \o <<projects[init_idx + 1]>>
            /\ StartDetails(projects[init_idx + 1])
       ELSE /\ init_pc' = "fetch"
            /\ UNCHANGED <<init_idx, resolve_log, details_vars>>
    /\ UNCHANGED <<cfg_vars, map_vars, run_vars, post_vars, get_vars, track_vars, active_vars, projects,
                   fetch_active_projects, init_task_ids, init_ret, process_log>>

\* the active projects are asked for when fetch_active_projects is not None
InitFetch ==
    /\ init_pc = "fetch"
    /\ IF fetch_active_projects.present
       THEN init_pc' = "active" /\ StartActive
       ELSE init_pc' = "check" /\ UNCHANGED active_vars
    /\ UNCHANGED <<cfg_vars, map_vars, run_vars, post_vars, get_vars, track_vars, details_vars, projects,
                   fetch_active_projects, init_idx, all_project_details,
                   init_task_ids, init_ret, resolve_log, process_log>>

\* get_active_projects returned: a non-empty list extends all_project_details
InitActiveReturned ==
    /\ init_pc = "active"
    /\ active_pc = "returned"
    /\ all_project_details' =
          IF Truthy(active_ret)
          THEN all_project_details \o active_ret.value
          ELSE all_project_details
    /\ init_pc' = "check"
    /\ UNCHANGED <<cfg_vars, map_vars, run_vars, post_vars, get_vars, track_vars, details_vars, active_vars,
                   projects, fetch_active_projects, init_idx, init_task_ids,
                   init_ret, resolve_log, process_log>>

\* with no project init_call returns []; otherwise the for loop over
\* all_project_details starts
InitCheck ==
    /\ init_pc = "check"
    /\ IF all_project_details = <<>>
       THEN /\ init_pc' = "returned"
            /\ init_ret' = Returned(<<>>)
            /\ UNCHANGED <<init_idx, init_task_ids>>
       ELSE /\ init_pc' = "process"
            /\ init_idx' = 1
            /\ init_task_ids' = <<>>
            /\ UNCHANGED init_ret
    /\ UNCHANGED <<cfg_vars, map_vars, run_vars, post_vars, get_vars, track_vars, details_vars, active_vars,
                   projects, fetch_active_projects, all_project_details,
                   resolve_log, process_log>>

\* one iteration of the for loop over all_project_details, up to the await
\* in process_project: the project is skipped or fails (task_id is None,
\* nothing is appended), or its request is handed to retry_post_request;
\* after the last project init_call returns task_ids
InitProcess ==
    /\ init_pc = "process"
    /\ IF init_idx <= Len(all_project_details)
       THEN LET project == all_project_details[init_idx]
                p == process_project(config, project)
            IN  /\ config' = p.config
                /\ IF p.outcome = "submit"
                   THEN /\ init_pc' = "submit"
                        /\ \E request_config \in p.bodies : StartPost(request_config)
                        /\ UNCHANGED <<init_idx, process_log, init_task_ids>>
                   ELSE IF p.outcome = "raise"
                   THEN /\ init_pc' = "raised"
                        /\ UNCHANGED <<init_idx, process_log, init_task_ids, post_vars>>
                   ELSE /\ init_pc' = "process"
                        /\ init_idx' = init_idx + 1
                        /\ process_log' =
                              Append(process_log, Processed(project, p.outcome, ReturnedNone))
                        /\ init_task_ids' = AppendTaskId(init_task_ids, ReturnedNone)
                        /\ UNCHANGED post_vars
                /\ UNCHANGED init_ret
       ELSE /\ init_pc' = "returned"
            /\ init_ret' = Returned(init_task_ids)
            /\ UNCHANGED <<config, init_idx, process_log, init_task_ids, post_vars>>
    /\ UNCHANGED <<max_retries, config_json, tracing, map_vars, run_vars, get_vars, track_vars,
                   details_vars, active_vars,
                   projects, fetch_active_projects, all_project_details, resolve_log>>

\* retry_post_request returned and process_project returns its value: a
\* task id is appended to task_ids, None is not
InitSubmitted ==
    /\ init_pc = "submit"
    /\ post_pc = "returned"
    /\ init_task_ids' = AppendTaskId(init_task_ids, post_ret)
    /\ process_log' =
          Append(process_log, Processed(all_project_details[init_idx], "submit", post_ret))
    /\ init_idx' = init_idx + 1
    /\ init_pc' = "process"
    /\ UNCHANGED <<cfg_vars, map_vars, run_vars, post_vars, get_vars, track_vars, details_vars, active_vars,
                   projects, fetch_active_projects, all_project_details,
                   init_ret, resolve_log>>

\* project id lists given to init_call (None and [] behave alike)
ProjectLists == {<<>>, <<7>>, <<7, 8>>}

\* one call of init_call, for every argument and every answer of the services
InitInit ==
    /\ max_retries \in 0..MaxRetriesCfg
    /\ config \in Templates
    /\ config_json = config
    /\ tracing = FALSE
    /\ MapIdle
    /\ RunIdle
    /\ RetryIdle
    /\ TrackIdle
    /\ details_pc = "idle" /\ details_id = 0 /\ details_retry = 0
    /\ details_ret = NoReturn /\ details_trace = <<>>
    /\ active_pc = "idle" /\ active_retry = 0
    /\ active_ret = NoReturn /\ active_trace = <<>> /\ active_failures = 0
    /\ projects \in ProjectLists
    /\ fetch_active_projects \in {Absent, Field(24)}
    /\ init_pc = "start" /\ init_idx = 0
    /\ all_project_details = <<>> /\ init_task_ids = <<>>
    /\ init_ret = NoReturn /\ resolve_log = <<>> /\ process_log = <<>>

InitNext ==
    \/ InitStart \/ DetailsAttempt \/ InitResolved \/ InitFetch \/ ActiveAttempt
    \/ InitActiveReturned \/ InitCheck \/ InitProcess \/ PostAttempt \/ InitSubmitted

SpecInit == InitInit /\ [][InitNext]_vars

-----------------------------------------------------------------------------
(* The mapping-type loop of process_project on its own: get_mapping_list is
   applied to every item of mapping_types_raw *)

\* the strings that differ from cs in letter case only
CaseVariants(cs) ==
    { [i \in 1..Len(cs) |-> IF up[i] THEN UpperChar(cs[i]) ELSE cs[i]] :
        up \in [1..Len(cs) -> BOOLEAN] }

\* "land_use", "landuse", "buildings", "waterways"; some other strings
Str_land_use == <<"l", "a", "n", "d", "_", "u", "s", "e">>
Str_landuse == <<"l", "a", "n", "d", "u", "s", "e">>
Str_buildings == <<"b", "u", "i", "l", "d", "i", "n", "g", "s">>
Str_waterways == <<"w", "a", "t", "e", "r", "w", "a", "y", "s">>
OtherStrings ==
    { <<>>, Str_OTHER, <<"r", "o", "a", "d">>, <<"R", "o", "a", "d", "s", " ">>,
      <<"l", "a", "n", "d", " ", "u", "s", "e">>, <<"1">> }

\* string tokens: every letter casing of the names, and the other strings
StrTokens ==
    { StrToken(cs) :
        cs \in CaseVariants(Str_roads) \cup CaseVariants(Str_buildings)
                 \cup CaseVariants(Str_waterways) \cup CaseVariants(Str_land_use)
                 \cup CaseVariants(Str_landuse) \cup OtherStrings }

\* integer tokens
IntTokens == { IntToken(n) : n \in (0 - MaxOrdinal)..MaxOrdinal }

\* tokens used in lists of two
PairTokens ==
    { StrToken(Str_roads), StrToken(Str_landuse), StrToken(Str_OTHER),
      IntToken(0), IntToken(1), IntToken(4), OtherToken }

\* values of mapping_types_raw: a list of one token, or of two
TokenLists ==
    { <<t>> : t \in StrTokens \cup IntTokens \cup {OtherToken} }
        \cup { <<t, u>> : t \in PairTokens, u \in PairTokens }

\* what get_mapping_list returned, as a returned value
MappingReturn(name) == IF name = None THEN ReturnedNone ELSE Returned(name)

\* one iteration of "for item in mapping_types_raw"
MapItem ==
    /\ map_pc = "loop"
    /\ map_idx <= Len(map_raw)
    /\ LET mapping_type_return == get_mapping_list(map_raw[map_idx]) IN
       /\ map_ret' = MappingReturn(mapping_type_return)
       /\ map_types' = IF mapping_type_return # None
                       THEN Append(map_types, mapping_type_return)
                       ELSE map_types
    /\ map_idx' = map_idx + 1
    /\ UNCHANGED <<cfg_vars, map_raw, map_pc, run_vars, post_vars, get_vars, track_vars, tm_vars>>

\* the loop is over
MapDone ==
    /\ map_pc = "loop"
    /\ map_idx > Len(map_raw)
    /\ map_pc' = "done"
    /\ UNCHANGED <<cfg_vars, map_raw, map_idx, map_ret, map_types, run_vars, post_vars, get_vars,
                   track_vars, tm_vars>>

\* the loop starts, for every list of tokens
MapInit ==
    /\ max_retries \in 0..MaxRetriesCfg
    /\ config = CanonicalTemplate
    /\ config_json = config
    /\ tracing = FALSE
    /\ RunIdle
    /\ map_raw \in TokenLists
    /\ map_pc = "loop" /\ map_idx = 1
    /\ map_ret = NoReturn /\ map_types = <<>>
    /\ RetryIdle
    /\ TrackIdle
    /\ TmIdle

MapNext == MapItem \/ MapDone

SpecMapping == MapInit /\ [][MapNext]_vars

-----------------------------------------------------------------------------
(* The retry executor on its own: one call of retry_post_request or of      *)
(* retry_get_request, against every sequence of responses.                 *)

RetryInit ==
    /\ max_retries \in 0..MaxRetriesCfg
    /\ config = CanonicalTemplate
    /\ config_json = config
    /\ tracing = TRUE
    /\ MapIdle
    /\ RunIdle
    /\ RetryIdle
    /\ TrackIdle
    /\ TmIdle

\* a caller awaits retry_post_request
CallPost ==
    /\ post_pc = "idle" /\ get_pc = "idle"
    /\ \E request_config \in RequestBodies : StartPost(request_config)
    /\ UNCHANGED <<cfg_vars, map_vars, run_vars, get_vars, track_vars, tm_vars>>

\* a caller awaits retry_get_request
CallGet ==
    /\ post_pc = "idle" /\ get_pc = "idle"
    /\ StartGet
    /\ UNCHANGED <<cfg_vars, map_vars, run_vars, post_vars, track_vars, tm_vars>>

RetryNext == CallPost \/ PostAttempt \/ CallGet \/ GetAttempt

SpecRetry == RetryInit /\ [][RetryNext]_vars

-----------------------------------------------------------------------------
(* The resolver on its own: one call of get_project_details or of
   get_active_projects, against every sequence of responses *)

ResolverInit ==
    /\ max_retries \in 0..MaxRetriesCfg
    /\ config = CanonicalTemplate
    /\ config_json = config
    /\ tracing = TRUE
    /\ MapIdle
    /\ RunIdle
    /\ RetryIdle
    /\ TrackIdle
    /\ TmIdle

\* a caller awaits get_project_details(project_id)
CallDetails ==
    /\ details_pc = "idle" /\ active_pc = "idle"
    /\ \E project_id \in ProjectIds : StartDetails(project_id)
    /\ UNCHANGED <<cfg_vars, map_vars, run_vars, post_vars, get_vars, track_vars, active_vars,
                   init_vars>>

\* a caller awaits get_active_projects(time_interval)
CallActive ==
    /\ details_pc = "idle" /\ active_pc = "idle"
    /\ StartActive
    /\ UNCHANGED <<cfg_vars, map_vars, run_vars, post_vars, get_vars, track_vars, details_vars,
                   init_vars>>

ResolverNext == CallDetails \/ DetailsAttempt \/ CallActive \/ ActiveAttempt

SpecResolver == ResolverInit /\ [][ResolverNext]_vars

-----------------------------------------------------------------------------
(* Reading a trace *)

\* the requests of a trace, in order
Requests(trace) == SelectSeq(trace, LAMBDA e : e.ev = "request")

\* the sleeps of one kind of a trace, in order
SleepsOf(trace, why) == SelectSeq(trace, LAMBDA e : e.ev = "sleep" /\ e.why = why)

\* all sleeps of a trace
AllSleeps(trace) == SelectSeq(trace, LAMBDA e : e.ev = "sleep")

\* a 429 or 502 answer
IsRateLimited(resp) == resp.kind = "status" /\ resp.status \in {429, 502}

\* every request of the trace failed
AllFailed(trace) == \A i \in 1..Len(trace) : trace[i].ev = "request" => trace[i].resp.kind # "ok"

\* the number of requests among the first i events of a trace
RequestsUpTo(trace, i) == Len(Requests(SubSeq(trace, 1, i)))

-----------------------------------------------------------------------------
(* Claims about the retry executor, checked under SpecRetry *)

\* retry_post_request returned after N >= 1 consecutive 429/502 answers
\* followed by a 2xx answer that carries a task_id
RateLimitedThenSuccess ==
    /\ post_pc = "returned"
    /\ LET reqs == Requests(post_trace) IN
       /\ Len(reqs) >= 2
       /\ \A i \in 1..(Len(reqs) - 1) : IsRateLimited(reqs[i].resp)
       /\ reqs[Len(reqs)].resp.kind = "ok"
       /\ reqs[Len(reqs)].resp.task_id # NoField

\* C5, as stated: N consecutive rate-limit answers followed by a success
\* cause exactly one rate_limit_wait sleep in total, and the task_id is returned.
C5_OneRateLimitWait ==
    RateLimitedThenSuccess =>
        LET reqs == Requests(post_trace) IN
        /\ Len(SleepsOf(post_trace, "rate_limit")) = 1
        /\ post_ret = Returned(reqs[Len(reqs)].resp.task_id)

\* C5, amended: N consecutive rate-limit answers (N within the retry bound)
\* followed by a success cause exactly N rate_limit_wait sleeps, one right
\* after each rate-limit answer and before the next attempt, no backoff
\* sleep, and the call returns the task_id of the success.
C5_RateLimitWaitPerAnswer ==
    RateLimitedThenSuccess =>
        LET reqs == Requests(post_trace)
            n == Len(reqs) - 1
        IN
        /\ n <= PostMaxRetries
        /\ Len(SleepsOf(post_trace, "rate_limit")) = n
        /\ Len(AllSleeps(post_trace)) = n
        /\ Len(post_trace) = 2 * n + 1
        /\ \A i \in 1..n :
              /\ post_trace[2 * i - 1].ev = "request"
              /\ post_trace[2 * i] = Sleep("rate_limit", rate_limit_wait)
        /\ post_ret = Returned(reqs[n + 1].resp.task_id)

\* C5 witness: three rate-limit answers, 429 and 502 among them, then a success
C5_Witness ==
    /\ RateLimitedThenSuccess
    /\ Len(Requests(post_trace)) = 4
    /\ \E i, j \in 1..3 :
          /\ Requests(post_trace)[i].resp.status = 429
          /\ Requests(post_trace)[j].resp.status = 502

\* C6: retry_post_request and retry_get_request make at most max_retries + 1
\* attempts; when every attempt failed (any mix of failures) the call has
\* returned after the last of them, retry_post_request with None and
\* retry_get_request with an error-status result.
C6_ExhaustedRetriesReturn ==
    /\ Len(Requests(post_trace)) <= PostMaxRetries + 1
    /\ Len(Requests(get_trace)) <= max_retries + 1
    /\ post_pc # "idle" => post_ret \in {NoReturn, ReturnedNone} \cup {Returned(t) : t \in TaskIds}
    /\ (AllFailed(post_trace) /\ Len(Requests(post_trace)) = PostMaxRetries + 1) =>
          (post_pc = "returned" /\ post_ret = ReturnedNone)
    /\ (post_pc = "returned" /\ AllFailed(post_trace)) => post_ret = ReturnedNone
    /\ (AllFailed(get_trace) /\ Len(Requests(get_trace)) = max_retries + 1) =>
          (get_pc = "returned" /\ get_ret.returned /\ ~get_ret.none
             /\ get_ret.value.status = "ERROR")
    /\ (get_pc = "returned" /\ AllFailed(get_trace)) =>
          (get_ret.returned /\ ~get_ret.none /\ get_ret.value.status = "ERROR")

\* C6 witness: retry_get_request used up three attempts on a rate-limit
\* status, a timeout and a connection error, and returned
C6_Witness ==
    /\ get_pc = "returned"
    /\ max_retries = 2
    /\ AllFailed(get_trace)
    /\ \E i, j, k \in 1..Len(get_trace) :
          /\ get_trace[i].ev = "request" /\ IsRateLimited(get_trace[i].resp)
          /\ get_trace[j].ev = "request" /\ get_trace[j].resp.kind = "timeout"
          /\ get_trace[k].ev = "request" /\ get_trace[k].resp.kind = "connerr"

\* C7, as stated: in retry_post_request, a non-2xx answer that is not 429 or
\* 502 and is followed by a further attempt is followed at once by a backoff
\* sleep of backoff_base ** attempt seconds.
C7_BackoffAfterOtherStatus ==
    \A i \in 1..Len(post_trace) :
        ( /\ post_trace[i].ev = "request"
          /\ post_trace[i].resp.kind = "status"
          /\ ~IsRateLimited(post_trace[i].resp)
          /\ \E j \in (i + 1)..Len(post_trace) : post_trace[j].ev = "request" )
        => ( post_trace[i + 1] =
               Sleep("backoff", Pow(backoff_base, RequestsUpTo(post_trace, i) - 1)) )

\* C8: a 2xx answer without task_id is the last event of the call:
\* retry_post_request has returned None, and no attempt and no sleep follows.
C8_MissingTaskIdEndsCall ==
    \A i \in 1..Len(post_trace) :
        ( /\ post_trace[i].ev = "request"
          /\ post_trace[i].resp.kind = "ok"
          /\ post_trace[i].resp.task_id = NoField )
        => ( /\ i = Len(post_trace)
             /\ post_pc = "returned"
             /\ post_ret = ReturnedNone )

\* C8 witness: the body without task_id arrived on the third attempt
C8_Witness ==
    /\ post_pc = "returned"
    /\ Len(Requests(post_trace)) = 3
    /\ post_trace[Len(post_trace)].ev = "request"
    /\ post_trace[Len(post_trace)].resp.kind = "ok"
    /\ post_trace[Len(post_trace)].resp.task_id = NoField

-----------------------------------------------------------------------------
(* Claims about track_tasks_status, checked under SpecTrack *)

\* the elements of a list
Range(seq) == {seq[i] : i \in 1..Len(seq)}

\* the statuses the polls of track_trace were answered with, in order
PollStatuses ==
    LET polls == SelectSeq(track_trace, LAMBDA e : e.ev = "poll")
    IN  [i \in 1..Len(polls) |-> polls[i].status]

\* the current job has just been given its entry in results
JustRecorded == track_pc \in {"next", "returned"} /\ task_ids # <<>>

\* C1: when track_tasks_status has run to completion on a non-empty list,
\* results, and the report written from it, hold an entry for every input
\* job id and for no other id (a dict holds one entry per key).
C1_ReportHasEveryJob ==
    (track_pc = "returned" /\ task_ids # <<>>) =>
        /\ DOMAIN results = Range(task_ids)
        /\ report.written => DOMAIN report.content = Range(task_ids)

\* C1 witness: a written report of two jobs, one stored as a failure string
\* (unknown status), one as a payload after a PENDING poll
C1_Witness ==
    /\ track_pc = "returned"
    /\ task_ids = <<"j1", "j2">>
    /\ report.written
    /\ report.content["j1"].kind = "failure"
    /\ report.content["j2"].kind = "payload"
    /\ Len(track_trace) > 1

\* C2, as stated: a poll answered with a status outside SUCCESS, PENDING,
\* STARTED, ERROR, FAILURE (or with no status) is the last poll of its job,
\* and the job is recorded as failed.
C2_UnknownStatusRecordedAsFailed ==
    \A i \in 1..Len(track_trace) :
        (track_trace[i].ev = "poll" /\ track_trace[i].status \notin KnownStatuses)
        => ( /\ i = Len(track_trace)
             /\ track_pc \in {"next", "returned"}
             /\ CurrentTask \in DOMAIN results
             /\ results[CurrentTask].kind = "failure" )

\* C3, as stated: a job whose last poll answered ERROR or FAILURE is stored
\* as a failure string, and a job stored with a result payload ended in SUCCESS.
C3_FailedJobsStoredAsFailure ==
    JustRecorded =>
        LET last == PollStatuses[Len(PollStatuses)] IN
        /\ last \in {"ERROR", "FAILURE"} => results[CurrentTask].kind = "failure"
        /\ results[CurrentTask].kind = "payload" => last = "SUCCESS"

\* C4: a job answered PENDING, PENDING, SUCCESS, each poll on its first HTTP
\* attempt, was polled three times with one task_poll_interval sleep between
\* consecutive polls, and is stored, in results and in the written report,
\* with the result payload of the SUCCESS answer.
C4_PendingPendingSuccess ==
    ( /\ JustRecorded
      /\ PollStatuses = <<"PENDING", "PENDING", "SUCCESS">>
      /\ track_first_try
      /\ get_ret.value.result # NoField )
    => ( /\ track_trace =
               << [ev |-> "poll", status |-> "PENDING"],
                  Sleep("poll", task_poll_interval),
                  [ev |-> "poll", status |-> "PENDING"],
                  Sleep("poll", task_poll_interval),
                  [ev |-> "poll", status |-> "SUCCESS"] >>
         /\ get_attempt = 0
         /\ results[CurrentTask] = Payload(get_ret.value.result)
         /\ report.written => report.content[CurrentTask] = Payload(get_ret.value.result) )

\* C4 witness: the report is written with the payload of such a job
C4_Witness ==
    /\ track_pc = "returned"
    /\ task_ids = <<"j1">>
    /\ PollStatuses = <<"PENDING", "PENDING", "SUCCESS">>
    /\ track_first_try
    /\ report.written
    /\ report.content["j1"] = Payload("payload_b")


-----------------------------------------------------------------------------
(* Claims about init_call, checked under SpecInit *)

\* the projects process_project was called with, in call order
ProcessedProjects == [i \in 1..Len(process_log) |-> process_log[i].project]

\* process_project returned a job id for this entry of process_log
GotJobId(entry) == entry.ret.returned /\ ~entry.ret.none

\* the job ids process_project returned, in call order
ReturnedJobIds ==
    LET ok == SelectSeq(process_log, GotJobId) IN [i \in 1..Len(ok) |-> ok[i].ret.value]

\* a project for which process_project returned None
FailedOrSkipped(entry) == entry.ret = ReturnedNone

\* C9: no per-project failure aborts init_call. No exception leaves
\* init_call; every project id of the batch is handed to
\* get_project_details, whatever the earlier ones returned; and when
\* init_call returns, process_project has been called for every project of
\* all_project_details, whatever happened to the earlier ones, and every job
\* id it returned is in the result.
C9_NoProjectFailureAborts ==
    /\ init_pc # "raised"
    /\ init_pc \in {"fetch", "active", "check", "process", "submit", "returned"}
          => resolve_log = projects
    /\ init_pc = "returned"
          => /\ init_ret.returned /\ ~init_ret.none
             /\ ProcessedProjects = all_project_details
             /\ \A i \in 1..Len(process_log) :
                   GotJobId(process_log[i])
                     => \E j \in 1..Len(init_ret.value) :
                           init_ret.value[j] = process_log[i].ret.value

\* C9 witness: project 7 was not resolved, the submission of project 8
\* returned None, the next project raised in process_project, and the
\* project after it contributed its job id to the result
C9_Witness ==
    /\ init_pc = "returned"
    /\ projects = <<7, 8>>
    /\ Len(process_log) = 3
    /\ process_log[1].project.project_id = 8
    /\ process_log[1].outcome = "submit" /\ process_log[1].ret = ReturnedNone
    /\ process_log[2].outcome = "error"
    /\ GotJobId(process_log[3])
    /\ init_ret = Returned(<<process_log[3].ret.value>>)

\* C10: init_call hands each project of all_project_details to
\* process_project once, in list order, and its task_ids, which it returns,
\* are exactly the job ids process_project returned, in that order: a
\* project for which process_project returned None adds no element, and no
\* project adds more than one.
C10_JobIdsOfSucceededInOrder ==
    /\ init_pc \in {"process", "submit", "returned"}
          => /\ Len(process_log) <= Len(all_project_details)
             /\ ProcessedProjects = SubSeq(all_project_details, 1, Len(process_log))
             /\ init_task_ids = ReturnedJobIds
             /\ Len(init_task_ids) <= Len(process_log)
    /\ init_pc \in {"process", "submit"} /\ all_project_details # <<>>
          => Len(process_log) = init_idx - 1
    /\ init_pc = "returned"
          => /\ ProcessedProjects = all_project_details
             /\ init_ret = Returned(ReturnedJobIds)

\* C10 witness: three projects were processed; the first and the third got
\* different job ids, the second was skipped, and the result is the two
\* job ids in project order
C10_Witness ==
    /\ init_pc = "returned"
    /\ Len(all_project_details) = 3
    /\ Len(process_log) = 3
    /\ process_log[1].ret = Returned("t2")
    /\ process_log[2].outcome = "skip" /\ FailedOrSkipped(process_log[2])
    /\ process_log[3].ret = Returned("t1")
    /\ init_ret = Returned(<<"t2", "t1">>)

-----------------------------------------------------------------------------
(* Claims about process_project, checked under SpecInit *)

\* at least one token of the project's mapping types normalizes to a name
Supported(project) ==
    /\ project.mapping_types.present
    /\ \E i \in 1..Len(project.mapping_types.value) :
          get_mapping_list(project.mapping_types.value[i]) # None

\* the project process_project is working on
CurrentProject == all_project_details[init_idx]

\* C11: a POST to the raw-data service is in progress only for a project
\* with at least one mapping type that normalizes to a canonical name; for
\* a project whose mapping types are missing, empty or all unsupported
\* process_project submits nothing and returns None.
C11_NoPostWithoutSupportedType ==
    /\ post_pc = "request" => init_pc = "submit" /\ Supported(CurrentProject)
    /\ init_pc = "submit" => Supported(CurrentProject)
    /\ \A i \in 1..Len(process_log) :
          ~Supported(process_log[i].project)
            => /\ process_log[i].outcome # "submit"
               /\ process_log[i].ret = ReturnedNone

\* C11 witness: a project with an empty mapping-type list, one with only an
\* unsupported name and one with no mapping types were processed, each
\* returned None, and no POST was ever started
C11_Witness ==
    /\ init_pc = "returned"
    /\ Len(process_log) = 3
    /\ process_log[1].project.mapping_types = Field(<<>>)
    /\ process_log[2].project.mapping_types = Field(<<StrToken(Str_OTHER)>>)
    /\ process_log[3].project.mapping_types = Absent
    /\ \A i \in 1..3 : process_log[i].outcome = "skip" /\ process_log[i].ret = ReturnedNone
    /\ post_pc = "idle"
    /\ init_ret = Returned(<<>>)

-----------------------------------------------------------------------------
(* Claims about get_mapping_list, checked under SpecMapping *)

\* the item get_mapping_list was last applied to
LastItem == map_raw[map_idx - 1]

\* get_mapping_list has been applied to an item
ItemDone == map_pc \in {"loop", "done"} /\ map_idx > 1

\* two characters are the same letter, in the same or in different case
SameLetter(c, d) ==
    \/ c = d
    \/ \E i \in 1..Len(LowerLetters) :
          {c, d} = {LowerLetters[i], UpperLetters[i]}

\* the string cs is the word, in some letter casing
IsCasingOf(cs, word) ==
    /\ Len(cs) = Len(word)
    /\ \A i \in 1..Len(cs) : SameLetter(cs[i], word[i])

\* C12, as stated: the strings Roads, Buildings, Waterways and Landuse, in
\* any letter casing, give their canonical name, and every other string
\* gives None.
C12_CanonicalNamesAnyCasing ==
    (ItemDone /\ LastItem.type = "str") =>
        LET cs == LastItem.chars IN
        IF IsCasingOf(cs, Str_roads) THEN map_ret = Returned("Roads")
        ELSE IF IsCasingOf(cs, Str_buildings) THEN map_ret = Returned("Buildings")
        ELSE IF IsCasingOf(cs, Str_waterways) THEN map_ret = Returned("Waterways")
        ELSE IF IsCasingOf(cs, Str_landuse) THEN map_ret = Returned("Landuse")
        ELSE map_ret = ReturnedNone

\* C12, corrected: the strings ROADS, BUILDINGS, WATERWAYS and LAND_USE, in
\* any letter casing, give Roads, Buildings, Waterways and Landuse; every
\* other string, Landuse among them, gives None; and the loop keeps exactly
\* the names returned.
C12_KeysAnyCasing ==
    /\ (ItemDone /\ LastItem.type = "str") =>
          LET cs == LastItem.chars IN
          IF IsCasingOf(cs, Str_roads) THEN map_ret = Returned("Roads")
          ELSE IF IsCasingOf(cs, Str_buildings) THEN map_ret = Returned("Buildings")
          ELSE IF IsCasingOf(cs, Str_waterways) THEN map_ret = Returned("Waterways")
          ELSE IF IsCasingOf(cs, Str_land_use) THEN map_ret = Returned("Landuse")
          ELSE map_ret = ReturnedNone
    /\ (ItemDone /\ LastItem.type = "other") => map_ret = ReturnedNone
    /\ map_pc = "done" => map_types = NormalizedTypes(map_raw)

\* C12 witness: "LaNd_UsE" gave Landuse
C12_Witness ==
    /\ map_pc = "done"
    /\ map_raw = <<StrToken(<<"L", "a", "N", "d", "_", "U", "s", "E">>)>>
    /\ map_ret = Returned("Landuse")
    /\ map_types = <<"Landuse">>

\* C13: an integer token n is a 1-based ordinal: 1, 2, 3, 4 give Roads,
\* Buildings, Waterways, Landuse, and every other integer gives None.
C13_OneBasedOrdinal ==
    (ItemDone /\ LastItem.type = "int") =>
        LET n == LastItem.int IN
        /\ n = 1 => map_ret = Returned("Roads")
        /\ n = 2 => map_ret = Returned("Buildings")
        /\ n = 3 => map_ret = Returned("Waterways")
        /\ n = 4 => map_ret = Returned("Landuse")
        /\ n \notin 1..4 => map_ret = ReturnedNone

\* C13 witness: the tokens 0 and 4 gave None and Landuse
C13_Witness ==
    /\ map_pc = "done"
    /\ map_raw = <<IntToken(0), IntToken(4)>>
    /\ map_ret = Returned("Landuse")
    /\ map_types = <<"Landuse">>

-----------------------------------------------------------------------------
(* Claims about generate_filtered_config, checked under SpecInit *)

\* the canonical names the project under way asks for
RequestedNames ==
    { get_mapping_list(CurrentProject.mapping_types.value[i]) :
        i \in 1..Len(CurrentProject.mapping_types.value) } \ {None}

\* the template's categories that have the key
EntriesFor(template, name) ==
    SelectSeq(template.categories, LAMBDA category : category.key = name)

\* the number of entries of the categories list with the key
CountOf(categories, name) ==
    Cardinality({i \in 1..Len(categories) : categories[i].key = name})

\* C14: generate_filtered_config leaves self.config as __init__ loaded it,
\* whatever was built before; the request built for a project has the
\* dataset_prefix of that project's id, and its categories are taken from
\* the loaded template's full list: a requested name is in the request when
\* the loaded template has a non-empty first entry for it, with that
\* entry's value, and nothing else is in the request.
C14_TemplateNotMutated ==
    /\ config = config_json
    /\ init_pc = "submit" =>
          /\ post_body.dataset.dataset_prefix =
                <<"hotosm_project_", CurrentProject.project_id>>
          /\ post_body.geometry = CurrentProject.geometry.value
          /\ \A i \in 1..Len(post_body.categories) :
                LET entry == post_body.categories[i] IN
                /\ entry.key \in RequestedNames
                /\ EntriesFor(config_json, entry.key) # <<>>
                /\ entry.value = EntriesFor(config_json, entry.key)[1].value
          /\ \A name \in RequestedNames :
                ( /\ EntriesFor(config_json, name) # <<>>
                  /\ ~Falsy(EntriesFor(config_json, name)[1].value) )
                  => CountOf(post_body.categories, name) >= 1

\* C14 witness: project 7 asked for Roads only and was submitted; the
\* request for project 8, which asks for Roads and Buildings, is built from
\* the unchanged template, names project 8 and has the Buildings entry
C14_Witness ==
    /\ init_pc = "submit"
    /\ Len(process_log) = 1
    /\ process_log[1].project.project_id = 7
    /\ process_log[1].project.mapping_types = Field(<<IntToken(1), StrToken(Str_roads)>>)
    /\ process_log[1].outcome = "submit"
    /\ CurrentProject.project_id = 8
    /\ RequestedNames = {"Roads", "Buildings"}
    /\ config = CanonicalTemplate
    /\ post_body.dataset.dataset_prefix = <<"hotosm_project_", 8>>
    /\ CountOf(post_body.categories, "Buildings") = 1
    /\ Len(post_body.categories) = 2

\* C15: a canonical name that is more than once in the list of resolved
\* mapping types has exactly one entry in the categories of the request
\* (when the template has a non-empty entry for it), and no name has more
\* than one.
C15_RepeatedNameOneEntry ==
    init_pc = "submit" =>
        /\ \A name \in RequestedNames :
              CountOf(post_body.categories, name) <= 1
        /\ \A name \in RequestedNames :
              ( /\ Len(SelectSeq(NormalizedTypes(CurrentProject.mapping_types.value),
                                 LAMBDA n : n = name)) > 1
                /\ EntriesFor(config_json, name) # <<>>
                /\ ~Falsy(EntriesFor(config_json, name)[1].value) )
                => CountOf(post_body.categories, name) = 1

\* C15 witness: the mapping types [1, "roads"] resolve to Roads twice, and
\* the request has the one Roads entry
C15_Witness ==
    /\ init_pc = "submit"
    /\ NormalizedTypes(CurrentProject.mapping_types.value) = <<"Roads", "Roads">>
    /\ Len(post_body.categories) = 1
    /\ post_body.categories[1] = [key |-> "Roads", value |-> "roads_cfg"]

\* the entries of the categories list of the request, as a set
CategoriesOf(body) == {body.categories[i] : i \in 1..Len(body.categories)}

\* the project under way asks for ["roads", 2]
AsksRoadsAndTwo ==
    /\ init_pc = "submit"
    /\ CurrentProject.mapping_types = Field(<<StrToken(Str_roads), IntToken(2)>>)

\* C16, as stated: with the template [{"ROADS": ...}, {"BUILDINGS": ...}]
\* and the mapping types ["roads", 2], the request has exactly the Roads
\* and the Buildings sub-entries of the template, the project's geometry
\* and the project's dataset_prefix.
C16_EndToEndUpperCaseKeys ==
    (AsksRoadsAndTwo /\ config_json = UpperCaseTemplate) =>
        /\ Len(post_body.categories) = 2
        /\ {post_body.categories[i].value : i \in 1..2}
              = {UpperCaseTemplate.categories[i].value : i \in 1..2}
        /\ post_body.geometry = CurrentProject.geometry.value
        /\ post_body.dataset.dataset_prefix =
              <<"hotosm_project_", CurrentProject.project_id>>

\* C16, corrected: with a template whose categories have the canonical
\* names as keys and the mapping types ["roads", 2], the request has
\* exactly the template's first Roads entry and its Buildings entry, the
\* project's geometry and the project's dataset_prefix; with the template
\* [{"ROADS": ...}, {"BUILDINGS": ...}] its categories list is empty.
C16_EndToEndCanonicalKeys ==
    /\ (AsksRoadsAndTwo /\ config_json = CanonicalTemplate) =>
          /\ Len(post_body.categories) = 2
          /\ CategoriesOf(post_body) =
                { [key |-> "Roads", value |-> "roads_cfg"],
                  [key |-> "Buildings", value |-> "buildings_cfg"] }
          /\ post_body.geometry = CurrentProject.geometry.value
          /\ post_body.dataset.dataset_prefix =
                <<"hotosm_project_", CurrentProject.project_id>>
    /\ (AsksRoadsAndTwo /\ config_json = UpperCaseTemplate) =>
          /\ post_body.categories = <<>>
          /\ post_body.geometry = CurrentProject.geometry.value
          /\ post_body.dataset.dataset_prefix =
                <<"hotosm_project_", CurrentProject.project_id>>

\* C16 witness: the request for project 7, which asks for ["roads", 2], is
\* under way with the canonical template
C16_Witness ==
    /\ AsksRoadsAndTwo
    /\ config_json = CanonicalTemplate
    /\ CurrentProject.project_id = 7
    /\ post_pc = "request"
    /\ post_body.categories =
          << [key |-> "Buildings", value |-> "buildings_cfg"],
             [key |-> "Roads", value |-> "roads_cfg"] >>

-----------------------------------------------------------------------------
(* Claims about the resolver, checked under SpecResolver *)

\* a 2xx answer of the project service that lacks a required field
LacksField(resp) ==
    /\ resp.kind = "ok"
    /\ ~(resp.body.mappingTypes.present /\ resp.body.areaOfInterest.present)

\* a 2xx answer of the active-projects query that lacks features
LacksFeatures(resp) == resp.kind = "ok" /\ ~resp.body.features.present

\* C17: in get_project_details a 404 answer is the last event of the call,
\* on whichever attempt it comes: no request and no sleep follows it, and
\* the call has returned None.
C17_NotFoundIsTerminal ==
    \A i \in 1..Len(details_trace) :
        ( /\ details_trace[i].ev = "request"
          /\ details_trace[i].resp.kind = "status"
          /\ details_trace[i].resp.status = 404 )
        => ( /\ i = Len(details_trace)
             /\ details_pc = "returned"
             /\ details_ret = ReturnedNone )

\* C17 witness: with two attempts allowed, the first was answered 404 and
\* the call returned None with nothing after it
C17_Witness ==
    /\ max_retries = 2
    /\ details_pc = "returned"
    /\ details_ret = ReturnedNone
    /\ Len(details_trace) = 1
    /\ details_trace[1].ev = "request"
    /\ details_trace[1].resp.kind = "status"
    /\ details_trace[1].resp.status = 404

\* C18, as stated: a 2xx answer that lacks mappingTypes or areaOfInterest
\* (get_project_details), or features (get_active_projects), and is
\* followed by a further attempt is followed at once by the backoff sleep
\* of backoff_base ** retry seconds.
C18_BackoffAfterMissingField ==
    /\ \A i \in 1..Len(details_trace) :
          ( /\ details_trace[i].ev = "request"
            /\ LacksField(details_trace[i].resp)
            /\ \E j \in (i + 1)..Len(details_trace) : details_trace[j].ev = "request" )
          => ( details_trace[i + 1] =
                 Sleep("backoff", Pow(backoff_base, RequestsUpTo(details_trace, i) - 1)) )
    /\ \A i \in 1..Len(active_trace) :
          ( /\ active_trace[i].ev = "request"
            /\ LacksFeatures(active_trace[i].resp)
            /\ \E j \in (i + 1)..Len(active_trace) : active_trace[j].ev = "request" )
          => ( active_trace[i + 1] =
                 Sleep("backoff", Pow(backoff_base, RequestsUpTo(active_trace, i) - 1)) )

-----------------------------------------------------------------------------
(* Claims about the active-projects fetch in init_call, checked under SpecInit *)

\* get_active_projects has returned and every attempt it made failed
AllActiveAttemptsFailed ==
    /\ active_pc = "returned"
    /\ active_failures = IF max_retries = 0 THEN 0 ELSE active_retry + 1

\* the project ids of a list of features
IdsOf(features) == {features[i].project_id : i \in 1..Len(features)}

\* C19: when every attempt of get_active_projects failed it returns None;
\* init_call then leaves all_project_details as the explicitly supplied
\* ids resolved it, and goes on to call process_project for every one of
\* those projects, submitting each that has a supported mapping type.
C19_FailedFetchKeepsResolved ==
    /\ [](AllActiveAttemptsFailed => active_ret = ReturnedNone)
    /\ [][(init_pc = "active" /\ init_pc' = "check" /\ AllActiveAttemptsFailed)
            => all_project_details' = all_project_details]_vars
    /\ []((AllActiveAttemptsFailed /\ init_pc \in {"check", "process", "submit", "returned"})
            => IdsOf(all_project_details) \subseteq ProjectIds)
    /\ []((AllActiveAttemptsFailed /\ init_pc = "returned")
            => /\ ProcessedProjects = all_project_details
               /\ \A i \in 1..Len(process_log) :
                     (Supported(process_log[i].project) /\ config_json.has_dataset)
                       => process_log[i].outcome = "submit")

\* C19 witness: both attempts of the fetch failed, and the two projects
\* resolved from the supplied ids were submitted and gave the result
C19_Witness ==
    /\ init_pc = "returned"
    /\ fetch_active_projects.present
    /\ max_retries = 2
    /\ active_failures = 2
    /\ active_ret = ReturnedNone
    /\ projects = <<7, 8>>
    /\ Len(process_log) = 2
    /\ process_log[1].project.project_id = 7 /\ process_log[1].outcome = "submit"
    /\ process_log[2].project.project_id = 8 /\ process_log[2].outcome = "submit"
    /\ init_ret = Returned(<<"t1", "t2">>)

-----------------------------------------------------------------------------
(* Claim about track_tasks_status on an empty batch, checked under SpecTrack *)

\* C20, as stated: a tracking run over no job ids also ends with the report
\* written, with no entry.
C20_EmptyBatchWritesReport ==
    (track_pc = "returned" /\ task_ids = <<>>) => report = Written(<<>>)

-----------------------------------------------------------------------------
(* Further claims about track_tasks_status, checked under SpecTrack *)

\* the input job ids that have no entry in results
Unrecorded == Range(task_ids) \ DOMAIN results

\* C21: while some input job id has no entry in results, this run has not
\* written result.json; the report is written only by the returned run,
\* from the complete results. A run that ends in an exception while polling
\* leaves no report.
C21_NoPartialReport ==
    /\ Unrecorded # {} => report = NotWritten
    /\ track_pc # "returned" => report = NotWritten
    /\ report.written =>
          /\ report.content = results
          /\ DOMAIN report.content = Range(task_ids)

\* C21 witness: the first job is recorded, the second is being polled
\* again after a PENDING answer, and no report is written
C21_Witness ==
    /\ task_ids = <<"j1", "j2">>
    /\ track_idx = 2
    /\ track_pc = "loop_poll"
    /\ "j1" \in DOMAIN results
    /\ Unrecorded = {"j2"}
    /\ report = NotWritten

\* C23: a status request for a job is under way only when every job before
\* it in the input list has its entry in results.
C23_SequentialPolling ==
    (track_pc \in {"first_poll", "loop_poll"} /\ get_pc = "request") =>
        \A j \in 1..(track_idx - 1) : task_ids[j] \in DOMAIN results

\* C23 witness: the status request for the second job is being sent, the
\* first job is recorded and the second is not
C23_Witness ==
    /\ task_ids = <<"j1", "j2">>
    /\ track_idx = 2
    /\ track_pc = "first_poll"
    /\ get_pc = "request"
    /\ DOMAIN results = {"j1"}

-----------------------------------------------------------------------------
(* Further claims about the retry executor, checked under SpecRetry *)

\* a 404 answer
IsNotFound(resp) == resp.kind = "status" /\ resp.status = 404

\* C24, as stated: a 404 answer to the submission POST or to a status GET
\* is the last event of the call: no attempt and no wait follows it, and the
\* call has returned its failure.
C24_NotFoundEndsCall ==
    /\ \A i \in 1..Len(post_trace) :
          (post_trace[i].ev = "request" /\ IsNotFound(post_trace[i].resp))
            => ( /\ i = Len(post_trace)
                 /\ post_pc = "returned"
                 /\ post_ret = ReturnedNone )
    /\ \A i \in 1..Len(get_trace) :
          (get_trace[i].ev = "request" /\ IsNotFound(get_trace[i].resp))
            => ( /\ i = Len(get_trace)
                 /\ get_pc = "returned"
                 /\ get_ret = Returned(ErrorResult(get_trace[i].resp)) )

\* C27: in retry_get_request the events of a call are attempt, wait,
\* attempt, wait, ..., attempt: the attempt number k is followed, when
\* anything follows it, by one wait of backoff_base ** k seconds and then
\* by attempt k + 1; only a failed attempt with k < max_retries is
\* followed by a wait; after a wait the next attempt is due; and the last
\* event of a call that has returned is an attempt.
C27_AttemptsAndWaitsAlternate ==
    /\ \A i \in 1..Len(get_trace) :
          IF i % 2 = 1
          THEN get_trace[i].ev = "request"
          ELSE /\ get_trace[i] = Sleep("backoff", Pow(backoff_base, (i \div 2) - 1))
               /\ get_trace[i - 1].resp.kind # "ok"
               /\ (i \div 2) - 1 < max_retries
    /\ (Len(get_trace) > 0 /\ get_trace[Len(get_trace)].ev = "sleep")
          => get_pc = "request"
    /\ get_pc = "returned" => get_trace[Len(get_trace)].ev = "request"
    /\ \A k \in 1..Len(AllSleeps(get_trace)) :
          AllSleeps(get_trace)[k].secs = Pow(2, k - 1)

\* C27 witness: three failed attempts with the waits 1 and 2 between them
\* and none after the third
C27_Witness ==
    /\ max_retries = 2
    /\ get_pc = "returned"
    /\ Len(get_trace) = 5
    /\ AllFailed(get_trace)
    /\ get_trace[2] = Sleep("backoff", 1)
    /\ get_trace[4] = Sleep("backoff", 2)
    /\ get_trace[5].ev = "request"

-----------------------------------------------------------------------------
(* Claim about the attempts of a submission, checked under SpecInit *)

\* C25, as stated: with API_MAX_RETRIES = max_retries, the submission of a
\* project makes at most max_retries + 1 POST attempts: the attempt under
\* way or last made has a number (from 0) of at most max_retries.
C25_PostAttemptsWithinConfigured ==
    init_pc = "submit" => post_attempt <= max_retries

-----------------------------------------------------------------------------
(* Claim about a failed status request, checked under SpecTrack *)

\* retry_get_request has returned the result it builds when its last
\* attempt failed
GetExhausted ==
    /\ get_pc = "returned"
    /\ get_ret.returned /\ ~get_ret.none
    /\ get_ret.value.message \in {"TimeoutError", "ClientConnectorError", "ClientResponseError"}

\* C29: a status GET that failed on all its max_retries + 1 attempts does
\* not end tracking: the next step records the job, as "FAILURE: <message>"
\* when it was the job's first poll and as the placeholder "No result
\* available" when it was a later poll, and the tracker is at the end of
\* the loop body, from where it goes on to the next job; tracking never
\* ends in an exception.
C29_ExhaustedGetIsRecorded ==
    /\ [](track_pc # "raised")
    /\ []((GetExhausted /\ track_pc \in {"first_poll", "loop_poll"})
            => (get_attempt = max_retries /\ get_ret.value.status = "ERROR"))
    /\ [][(GetExhausted /\ track_pc = "first_poll")
            => ( /\ track_pc' = "next"
                 /\ track_idx' = track_idx
                 /\ results'[CurrentTask] = FailureString(get_ret.value.message) )]_vars
    /\ [][(GetExhausted /\ track_pc = "loop_poll")
            => ( /\ track_pc' = "next"
                 /\ track_idx' = track_idx
                 /\ results'[CurrentTask] = Placeholder )]_vars
    /\ [][(track_pc = "next" /\ track_idx < Len(task_ids))
            => (track_pc' = "first_poll" /\ track_idx' = track_idx + 1)]_vars

\* C29 witness: the first job's first poll failed on every attempt, the
\* second job's later poll did, both are in the written report and the
\* run has returned
C29_Witness ==
    /\ track_pc = "returned"
    /\ task_ids = <<"j1", "j2">>
    /\ max_retries = 1
    /\ results["j1"] = FailureString("TimeoutError")
    /\ results["j2"] = Placeholder
    /\ GetExhausted
    /\ report = Written(results)

-----------------------------------------------------------------------------
(* Claim about the attempts of the resolver, checked under SpecResolver *)

\* C30: a call of get_project_details or of get_active_projects sends at
\* most max_retries requests; with max_retries = 0 it sends none and has
\* returned None at once.
C30_ResolverAttemptsBound ==
    /\ Len(Requests(details_trace)) <= max_retries
    /\ Len(Requests(active_trace)) <= max_retries
    /\ (details_pc = "returned" /\ Len(Requests(details_trace)) = max_retries
          /\ AllFailed(details_trace)) => details_ret = ReturnedNone
    /\ (max_retries = 0 /\ details_pc # "idle")
          => (details_pc = "returned" /\ details_ret = ReturnedNone /\ details_trace = <<>>)
    /\ (max_retries = 0 /\ active_pc # "idle")
          => (active_pc = "returned" /\ active_ret = ReturnedNone /\ active_trace = <<>>)

\* C30 witness: with max_retries = 0, get_project_details returned None
\* without a request
C30_Witness ==
    /\ max_retries = 0
    /\ details_pc = "returned"
    /\ details_id = 7
    /\ details_ret = ReturnedNone
    /\ details_trace = <<>>

-----------------------------------------------------------------------------
(* main: the environment is validated, the ProjectProcessor is constructed
   from the path CONFIG_JSON, and init_call is run on the command line's
   projects *)

\* self.config before __init__ has assigned it
NoConfig ==
    [has_dataset |-> FALSE,
     dataset |-> [dataset_prefix |-> <<>>, dataset_title |-> <<>>],
     categories |-> <<>>]

\* what the path CONFIG_JSON can hold
ConfigFiles ==
    {ConfigFile("missing", NoConfig), ConfigFile("invalid_json", NoConfig)}
        \cup {ConfigFile("json", template) : template \in Templates}

\* validate_environment and ProjectProcessor.__init__: EnvVarError without the
\* token, ValueError unless the path holds JSON; both are caught and logged by
\* main, which then ends. Otherwise the document becomes self.config as it
\* is, and init_call is called
MainConstruct ==
    /\ main_pc = "start"
    /\ IF ~auth_token \/ config_file.kind # "json"
       THEN /\ main_pc' = "aborted"
            /\ UNCHANGED <<config, config_json, init_pc>>
       ELSE /\ main_pc' = "init_call"
            /\ config' = config_file.template
            /\ config_json' = config_file.template
            /\ init_pc' = "start"
    /\ UNCHANGED <<max_retries, tracing, map_vars, config_file, auth_token, build_vars,
                   post_vars, get_vars, track_vars, details_vars, active_vars,
                   projects, fetch_active_projects, init_idx, all_project_details,
                   init_task_ids, init_ret, resolve_log, process_log>>

\* main after init_call: an exception of init_call is caught and logged, a
\* returned list ends the run (without --track)
MainAfterInit ==
    /\ main_pc = "init_call"
    /\ init_pc \in {"returned", "raised"}
    /\ main_pc' = IF init_pc = "raised" THEN "aborted" ELSE "returned"
    /\ UNCHANGED <<cfg_vars, map_vars, config_file, auth_token, build_vars,
                   post_vars, get_vars, track_vars, tm_vars>>

\* one run of main, for every environment, every content of the path
\* CONFIG_JSON and every command line: --projects and --fetch-active-projects
\* are mutually exclusive and one of them is required
MainInit ==
    /\ max_retries \in 0..MaxRetriesCfg
    /\ config = NoConfig
    /\ config_json = NoConfig
    /\ tracing = FALSE
    /\ MapIdle
    /\ main_pc = "start"
    /\ config_file \in ConfigFiles
    /\ auth_token \in BOOLEAN
    /\ build_pc = "idle" /\ build_args = BuildArgs(0, <<>>, "") /\ build_ret = NoReturn
    /\ RetryIdle
    /\ TrackIdle
    /\ details_pc = "idle" /\ details_id = 0 /\ details_retry = 0
    /\ details_ret = NoReturn /\ details_trace = <<>>
    /\ active_pc = "idle" /\ active_retry = 0
    /\ active_ret = NoReturn /\ active_trace = <<>> /\ active_failures = 0
    /\ \/ projects \in ProjectLists \ {<<>>} /\ fetch_active_projects = Absent
       \/ projects = <<>> /\ fetch_active_projects = Field(24)
    /\ init_pc = "idle" /\ init_idx = 0
    /\ all_project_details = <<>> /\ init_task_ids = <<>>
    /\ init_ret = NoReturn /\ resolve_log = <<>> /\ process_log = <<>>

MainNext ==
    \/ MainConstruct \/ MainAfterInit
    \/ InitStart \/ DetailsAttempt \/ InitResolved \/ InitFetch \/ ActiveAttempt
    \/ InitActiveReturned \/ InitCheck \/ InitProcess \/ PostAttempt \/ InitSubmitted

SpecMain == MainInit /\ [][MainNext]_vars

\* the template is missing or invalid, or the credential is missing
IsConfigurationError ==
    \/ ~auth_token
    \/ config_file.kind # "json"
    \/ ~config_file.template.has_dataset

\* a project lookup, a submission POST or a status GET has been issued
NetworkRequestIssued ==
    \/ details_pc # "idle" \/ active_pc # "idle"
    \/ post_pc # "idle" \/ get_pc # "idle"

\* C22: a configuration error (a missing or invalid template, or a missing
\* RAWDATA_API_AUTH_TOKEN) aborts the run before any network request is
\* issued, and no other failure aborts the whole run
C22_ConfigurationErrorAborts ==
    /\ IsConfigurationError =>
           /\ main_pc \in {"start", "aborted"}
           /\ ~NetworkRequestIssued
    /\ main_pc = "aborted" => IsConfigurationError

-----------------------------------------------------------------------------
(* generate_filtered_config called on its own, as process_project calls it:
   with a project id, a non-empty list of canonical names and a geometry *)

MaxNames == 2

\* the canonical names get_mapping_list returns
CanonicalNames == {MAPPING_TYPES[i].value : i \in 1..Len(MAPPING_TYPES)}

\* the lists mapping_types process_project passes: not empty, repeats allowed
NameLists ==
    UNION {[1..n -> CanonicalNames] : n \in 1..MaxNames}

\* one call of generate_filtered_config: KeyError without a dataset section,
\* else one of the documents it can build is returned
BuildCall ==
    /\ build_pc = "call"
    /\ LET built == generate_filtered_config(config, build_args.project_id,
                                             build_args.mapping_types,
                                             build_args.geometry)
       IN  /\ config' = built.config
           /\ IF built.raised
              THEN /\ build_pc' = "raised"
                   /\ UNCHANGED build_ret
              ELSE /\ build_pc' = "returned"
                   /\ \E body \in built.bodies : build_ret' = Returned(body)
    /\ UNCHANGED <<max_retries, config_json, tracing, map_vars, main_vars, build_args,
                   post_vars, get_vars, track_vars, tm_vars>>

\* a call for every template, project id and list of canonical names
BuildInit ==
    /\ max_retries \in 0..MaxRetriesCfg
    /\ config \in Templates
    /\ config_json = config
    /\ tracing = FALSE
    /\ MapIdle
    /\ main_pc = "idle" /\ config_file = ConfigFile("json", config) /\ auth_token = TRUE
    /\ build_pc = "call"
    /\ build_args \in {BuildArgs(project_id, mapping_types, geometry) :
                          project_id \in ProjectIds, mapping_types \in NameLists,
                          geometry \in Geometries}
    /\ build_ret = NoReturn
    /\ RetryIdle
    /\ TrackIdle
    /\ TmIdle

BuildNext == BuildCall

SpecBuild == BuildInit /\ [][BuildNext]_vars

\* the names requested in the call
BuildNames ==
    {build_args.mapping_types[i] : i \in 1..Len(build_args.mapping_types)}

\* the sub-configurations the template holds under the name
TemplateValues(name) ==
    {config_json.categories[i].value :
        i \in {j \in 1..Len(config_json.categories) : config_json.categories[j].key = name}}

\* the positions of the name in the categories of the returned document
EntriesOf(name) ==
    {i \in 1..Len(build_ret.value.categories) : build_ret.value.categories[i].key = name}

\* C26: the categories of the derived config hold one entry for each distinct
\* requested canonical name that has an entry in the template, with that
\* entry's sub-configuration, and nothing else; a requested name without a
\* template entry gives no entry and no error; the geometry is unchanged
C26_OneEntryPerRequestedTemplateName ==
    /\ config_json.has_dataset => build_pc # "raised"
    /\ build_pc = "returned" =>
           /\ \A name \in BuildNames :
                  IF TemplateValues(name) # {}
                  THEN /\ Cardinality(EntriesOf(name)) = 1
                       /\ \A i \in EntriesOf(name) :
                              build_ret.value.categories[i].value \in TemplateValues(name)
                  ELSE EntriesOf(name) = {}
           /\ \A i \in 1..Len(build_ret.value.categories) :
                  build_ret.value.categories[i].key \in BuildNames
           /\ build_ret.value.geometry = build_args.geometry

-----------------------------------------------------------------------------
(* track_tasks_status on an event loop that runs it: every await of the one
   coroutine completes (a request is answered or times out, a sleep ends),
   so a step that can be taken is taken *)

\* the tracking runs whose status requests are retried at most once
TrackFairInit == TrackInit /\ max_retries \in {0, 1}

SpecTrackFair == TrackFairInit /\ [][TrackNextStep]_vars /\ WF_vars(TrackNextStep)

\* the response in hand says the job is not finished
PendingAnswer ==
    /\ track_pc \in {"first_poll", "loop_poll"}
    /\ get_pc = "returned"
    /\ ~get_ret.none
    /\ get_ret.value.status \in {"PENDING", "STARTED"}

\* the polls of the current job so far
PollsOfJob == SelectSeq(track_trace, LAMBDA e : e.ev = "poll")

\* the job's answer is still not SUCCESS, ERROR or FAILURE on the last poll
\* considered: its status did not become final within MaxPolls polls
UnfinishedAtBound ==
    /\ track_pc = "loop_poll"
    /\ get_pc = "returned"
    /\ ~get_ret.none
    /\ get_ret.value.status \notin {"SUCCESS", "ERROR", "FAILURE"}
    /\ Len(PollsOfJob) + 1 = MaxPolls

=============================================================================
